---------------------------- MODULE Spec2Model ----------------------------
(***************************************************************************)
(* State-machine model of the RISC-V_OS process kernel: the process table, *)
(* the semaphore table, the cooperative scheduler with its return hook,    *)
(* the trap dispatcher and the bump allocator, translated from             *)
(* src/scheduler.cpp, src/trap.cpp, src/memory.cpp and src/shell.cpp.      *)
(*                                                                         *)
(* Control is single-hart and cooperative, so the model carries one        *)
(* control location, ctl:                                                  *)
(*   "boot"  kernel_main has not yet called scheduler_main                 *)
(*   "loop"  scheduler_main is at the top of its while(1) loop             *)
(*   "task"  the entry of the process named by current is executing       *)
(*   "shell" shell_main is executing (it never returns and never ecalls)   *)
(*   "cmd_run" the shell is inside cmd_run, about to call scheduler_run_pid *)
(*   "hook"  control has been sent to kernel_resume_pc, that is to         *)
(*           scheduler_process_return, which has not run yet               *)
(*   "fatal" trap_handler spins in its wait-for-interrupt loop             *)
(* run_process calls p->entry() afresh at every dispatch: the PCB keeps    *)
(* no saved program counter, so ip, the position inside the entry, exists  *)
(* only for the invocation that is executing and restarts at 1.            *)
(* The UART is modelled only for what tasks print (out); the kernel's own  *)
(* diagnostics are not recorded.                                           *)
(*                                                                         *)
(* scheduler_process_return is reached by call from run_process or by a    *)
(* jump to kernel_resume_pc; either way it reloads the stack pointer that  *)
(* run_process saved, and the model lets control go on in the frame that   *)
(* called run_process (the scheduler loop, or cmd_run inside the shell).   *)
(*                                                                         *)
(* Several set-ups start a behaviour. InitBoot is the image as booted:     *)
(* scheduler_main calls scheduler_init, creates the shell and enters its   *)
(* loop; every further process is a binary that cmd_run loads and          *)
(* dispatches from inside the shell. The others enter the loop of          *)
(* scheduler_main with a table that scheduler_init and create_process      *)
(* have filled beforehand, as the test plan of the specification sets its  *)
(* scenarios up; scheduler_main itself calls scheduler_init first, so the  *)
(* booted image reaches the loop with the shell alone.                     *)
(*                                                                         *)
(* The module also models create_process's choice of slot and stack for a  *)
(* range of stack sizes ("create"), and the in-memory filesystem of        *)
(* src/fat.cpp with the shell commands that use it ("fat"): the root       *)
(* directory and the pools of directories and files, pointers being pool   *)
(* indices, child arrays being sequences and names being sequences of byte *)
(* codes. The filesystem commands are driven on their own, from the        *)
(* constructed, empty filesystem, with the paths and names of one of a few *)
(* set-ups: directory trees from any working directory; names at the       *)
(* length boundary; filling the file pool; moving files; writing and       *)
(* printing file contents. They share no state with the process kernel.    *)
(***************************************************************************)
EXTENDS Integers, Sequences, FiniteSets

VARIABLES
    proc_table,        \* Process proc_table[MAX_PROCS]
    proc_name_buf,     \* static char proc_name_buf[MAX_PROCS][16]
    next_pid,          \* static int next_pid
    current,           \* int current
    sem_table,         \* static Semaphore sem_table[MAX_SEMS]
    next_sem_id,       \* static int next_sem_id
    kernel_saved_sp,   \* whose frame run_process saved: "none", "sched", "shell"
    kernel_resume_pc,  \* "none" or "scheduler_process_return"
    heap_ptr,          \* static uint8_t* heap_ptr
    start_idx,         \* local of scheduler_main
    ctl,               \* control location (see above)
    ip,                \* position of the executing entry invocation
    out,               \* what tasks have printed
    trace,             \* prints and syscalls of scripted tasks, in order
    scenario,          \* which set-up Init chose; never changes
    cmd_pid,           \* local pid of cmd_run
    allocs,            \* regions kmalloc returned to the allocator driver
    fat,               \* FAT fat: the root directory and the two object pools
    last               \* the operation performed by the latest step

vars == <<proc_table, proc_name_buf, next_pid, current, sem_table, next_sem_id,
          kernel_saved_sp, kernel_resume_pc, heap_ptr, start_idx, ctl, ip,
          out, trace, scenario, cmd_pid, allocs, fat, last>>

-----------------------------------------------------------------------------
(* Bounds of the model *)

\* scheduler.h: MAX_PROCS is 16 and MAX_SEMS is 32 in the source; the model
\* keeps the tables' code and shrinks their sizes.
MAX_PROCS == 3
MAX_SEMS == 2
\* bytes between _kernel_heap_start and _kernel_heap_end
HeapBytes == 12400
\* sem_create is not called once next_sem_id exceeds MaxSemId, unless the
\* table is full (it then fails and issues no id)
MaxSemId == 1
\* sem_create's initial values range over -1 .. MaxValue, and sem_signal is
\* not called on a semaphore whose value is MaxValue
MaxValue == 1
\* scripted tasks stop once trace holds MaxTrace events
MaxTrace == 14
\* number of tasks the harness creates before the loop starts
MaxHarness == 2
\* the allocator driver starts with at most MemSlack 16-byte units of headroom
MemSlack == 6
\* fat.h: MAX_DIRS is 16, MAX_FILES is 64 and MAX_FILE_SIZE is 16384 in the
\* source; the model keeps the pools' code and shrinks their sizes.
MAX_DIRS == 3
MAX_FILES == 3
MAX_FILE_SIZE == 2

(* Program constants *)
DEFAULT_STACK_SIZE == 4096
SYSCALL_EXIT == 93
SYSCALL_YIELD == 124
SYSCALL_SEM_CREATE == 150
SYSCALL_SEM_WAIT == 151
SYSCALL_SEM_SIGNAL == 152
SYSCALL_SEM_DESTROY == 153
ECALL_FROM_U == 11
NULL == 0
NAME_BUF_LEN == 16
MAX_NAME_LEN == 16
\* char buf[32], char part[32], char name[32]: at most 31 bytes are copied
PART_MAX == 31
\* '/', ' ', Ctrl+D, '\n' and '\r'
CH_SLASH == 47
CH_SPACE == 32
CH_EOT == 4
CH_LF == 10
CH_CR == 13

PROC_FREE == "FREE"
PROC_READY == "READY"
PROC_RUNNING == "RUNNING"
PROC_BLOCKED_SEM == "BLOCKED_SEM"
PROC_SLEEP == "SLEEP"
PROC_ZOMBIE == "ZOMBIE"
ProcState == {PROC_FREE, PROC_READY, PROC_RUNNING, PROC_BLOCKED_SEM,
              PROC_SLEEP, PROC_ZOMBIE}

Slots == 0 .. (MAX_PROCS - 1)
SemSlots == 0 .. (MAX_SEMS - 1)

\* A Process* is modelled as slot index + 1, so that nullptr is NULL (0).
PtrOf(i) == i + 1
IdxOf(p) == p - 1

\* A function pointer: a named kernel or test function, or an address in
\* the heap (a loaded binary); both empty is nullptr.
NullFn == [fn |-> "", addr |-> NULL]
Fn(f) == [fn |-> f, addr |-> NULL]
CodeAt(a) == [fn |-> "", addr |-> a]

KernelHeapStart == 16 * 256
heap_limit == KernelHeapStart + HeapBytes

Min(a, b) == IF a < b THEN a ELSE b

-----------------------------------------------------------------------------
(* memory.cpp *)

\* no rounding at all (a faulty variant, against which C19 is checked to fail)
Align16Off(x) == x

\* (x + 15) & ~15ULL
Align16(x) == ((x + 15) \div 16) * 16

\* kmalloc(size) on heap pointer h: the returned pointer and the new heap_ptr
kmalloc(h, size) ==
    IF size = 0 THEN [res |-> NULL, heap |-> h]
    ELSE IF h + Align16(size) >= heap_limit THEN [res |-> NULL, heap |-> h]
    ELSE [res |-> h, heap |-> h + Align16(size)]

-----------------------------------------------------------------------------
(* scheduler.cpp: helpers *)

\* the PCB as scheduler_init and the return hook leave it
FreePCB == [pid |-> 0, name |-> NULL, entry |-> NullFn, stack |-> NULL,
            stack_top |-> NULL, stack_size |-> 0, state |-> PROC_FREE,
            blocked_sem_id |-> -1, next_blocked |-> NULL]

\* the PCB of the zero-initialised global array, before scheduler_init
ZeroPCB == [FreePCB EXCEPT !.blocked_sem_id = 0]

FreeSem == [id |-> 0, value |-> 0, owner_pid |-> 0, blocked_list |-> NULL,
            in_use |-> FALSE]

\* pid_to_proc: pointer to the first slot holding pid, or NULL
pid_to_proc(pt, pid) ==
    IF pid <= 0 THEN NULL
    ELSE IF \E i \in Slots : pt[i].pid = pid
         THEN PtrOf(CHOOSE i \in Slots : /\ pt[i].pid = pid
                                         /\ \A j \in Slots : j < i => pt[j].pid # pid)
         ELSE NULL

\* find_free_slot: pointer to the first FREE slot, or NULL
find_free_slot(pt) ==
    IF \E i \in Slots : pt[i].state = PROC_FREE
    THEN PtrOf(CHOOSE i \in Slots : /\ pt[i].state = PROC_FREE
                                    /\ \A j \in Slots : j < i => pt[j].state # PROC_FREE)
    ELSE NULL

\* find_free_sem_slot: index of the first semaphore slot not in use, or -1
find_free_sem_slot(st) ==
    IF \E i \in SemSlots : ~st[i].in_use
    THEN CHOOSE i \in SemSlots : /\ ~st[i].in_use
                                 /\ \A j \in SemSlots : j < i => st[j].in_use
    ELSE -1

\* sem_get without the test of in_use (a faulty variant, against which C34
\* is checked to fail)
sem_get_any(st, sem_id) ==
    IF \E i \in SemSlots : st[i].id = sem_id
    THEN CHOOSE i \in SemSlots :
            /\ st[i].id = sem_id
            /\ \A j \in SemSlots : j < i => st[j].id # sem_id
    ELSE -1

\* sem_get: index of the first in-use semaphore slot with this id, or -1
sem_get(st, sem_id) ==
    IF \E i \in SemSlots : st[i].id = sem_id /\ st[i].in_use
    THEN CHOOSE i \in SemSlots :
            /\ st[i].id = sem_id /\ st[i].in_use
            /\ \A j \in SemSlots : j < i => ~(st[j].id = sem_id /\ st[j].in_use)
    ELSE -1

\* Selectable with the skip of blocked processes removed (a faulty variant,
\* against which C4 is checked to fail)
SelectableOrBlocked(s) ==
    s = PROC_READY \/ s = PROC_RUNNING \/ s = PROC_BLOCKED_SEM

\* the states find_next_ready accepts
Selectable(s) == s = PROC_READY \/ s = PROC_RUNNING

\* find_next_ready with a scan one slot short of the whole table (a faulty
\* variant, against which C31 is checked to fail)
find_next_ready_short(pt, start) ==
    LET offs == {o \in 0 .. (MAX_PROCS - 2) :
                    Selectable(pt[(start + o) % MAX_PROCS].state)}
    IN  IF offs = {} THEN NULL
        ELSE PtrOf((start + CHOOSE o \in offs : \A q \in offs : o <= q) % MAX_PROCS)

\* find_next_ready: pointer to the first selectable slot in cyclic order
\* from start, or NULL
find_next_ready(pt, start) ==
    IF \E off \in 0 .. (MAX_PROCS - 1) : Selectable(pt[(start + off) % MAX_PROCS].state)
    THEN LET off == CHOOSE o \in 0 .. (MAX_PROCS - 1) :
                       /\ Selectable(pt[(start + o) % MAX_PROCS].state)
                       /\ \A q \in 0 .. (MAX_PROCS - 1) :
                             q < o => ~Selectable(pt[(start + q) % MAX_PROCS].state)
         IN  PtrOf((start + off) % MAX_PROCS)
    ELSE NULL

\* terminate_process freeing the slot at once instead of marking it ZOMBIE
\* (a faulty variant, against which C6 is checked to fail)
terminate_process_frees(pt, pid) ==
    LET p == pid_to_proc(pt, pid)
    IN  IF p # NULL THEN [pt EXCEPT ![IdxOf(p)].state = PROC_FREE] ELSE pt

\* terminate_process
terminate_process(pt, pid) ==
    LET p == pid_to_proc(pt, pid)
    IN  IF p # NULL THEN [pt EXCEPT ![IdxOf(p)].state = PROC_ZOMBIE] ELSE pt

\* the name copy of create_process: at most sizeof(proc_name_buf[0]) - 1 bytes
CopyName(src) == SubSeq(src, 1, Min(Len(src), NAME_BUF_LEN - 1))

\* stack + stack_size, aligned down to 16
StackTop(stk, stack_size) == ((stk + stack_size) \div 16) * 16

\* next_pid left as it is (a faulty variant, against which C5 is checked to
\* fail)
NextPidSame(np) == np

\* next_pid++ : the counter after a PID was issued
NextPid(np) == np + 1

\* create_process on the kernel state k = [pt, nb, np, hp]: the new kernel
\* state and the value returned
create_process(k, entry, name, stack_size) ==
    LET slot == find_free_slot(k.pt)
        a == kmalloc(k.hp, stack_size)
        i == IdxOf(slot)
    IN  IF slot = NULL THEN [k |-> k, ret |-> -1]
        ELSE IF a.res = NULL THEN [k |-> [k EXCEPT !.hp = a.heap], ret |-> -1]
        ELSE [k |-> [pt |-> [k.pt EXCEPT ![i] =
                               [pid |-> k.np, name |-> PtrOf(i), entry |-> entry,
                                stack |-> a.res,
                                stack_top |-> StackTop(a.res, stack_size),
                                stack_size |-> stack_size, state |-> PROC_READY,
                                blocked_sem_id |-> -1, next_blocked |-> NULL]],
                     nb |-> [k.nb EXCEPT ![i] = CopyName(name)],
                     np |-> NextPid(k.np),
                     hp |-> a.heap],
              ret |-> k.np]

\* create_process_from_binary: as create_process, with a code region of
\* binary_size rounded up to 16 allocated first and used as the entry.
\* (code_size is a uint32_t; the sizes of the model stay far below 2^32, so
\* the truncation never acts.)
create_process_from_binary(k, binary_size, name, stack_size) ==
    LET slot == find_free_slot(k.pt)
        code_size == Align16(binary_size)
        c == kmalloc(k.hp, code_size)
        s == kmalloc(c.heap, stack_size)
        i == IdxOf(slot)
    IN  IF slot = NULL THEN [k |-> k, ret |-> -1]
        ELSE IF c.res = NULL THEN [k |-> [k EXCEPT !.hp = c.heap], ret |-> -1]
        ELSE IF s.res = NULL THEN [k |-> [k EXCEPT !.hp = s.heap], ret |-> -1]
        ELSE [k |-> [pt |-> [k.pt EXCEPT ![i] =
                               [pid |-> k.np, name |-> PtrOf(i),
                                entry |-> CodeAt(c.res), stack |-> s.res,
                                stack_top |-> StackTop(s.res, stack_size),
                                stack_size |-> stack_size, state |-> PROC_READY,
                                blocked_sem_id |-> -1, next_blocked |-> NULL]],
                     nb |-> [k.nb EXCEPT ![i] = CopyName(name)],
                     np |-> NextPid(k.np),
                     hp |-> s.heap],
              ret |-> k.np]

\* sem_create on semaphore table st: the new table, the new next_sem_id and
\* the id returned
sem_create(st, nsid, cur, initial_value) ==
    LET slot == find_free_sem_slot(st)
    IN  IF slot = -1 THEN [st |-> st, nsid |-> nsid, ret |-> -1]
        ELSE [st |-> [st EXCEPT ![slot] =
                        [id |-> nsid, value |-> initial_value, owner_pid |-> cur,
                         blocked_list |-> NULL, in_use |-> TRUE]],
              nsid |-> nsid + 1, ret |-> nsid]


\* scheduler_init: every slot FREE, every semaphore unused
InitProcTable == [i \in Slots |-> FreePCB]
InitSemTable == [i \in SemSlots |-> FreeSem]

\* sem_wait blocking one call too late, on value < -1 (a faulty variant,
\* against which C12 is checked to fail)
sem_wait_late(pt, st, cur, sem_id) ==
    LET s == sem_get(st, sem_id)
        p == pid_to_proc(pt, cur)
        v == st[s].value - 1
    IN  IF s = -1 THEN [pt |-> pt, st |-> st, jumped |-> FALSE]
        ELSE IF v >= -1 \/ p = NULL
             THEN [pt |-> pt, st |-> [st EXCEPT ![s].value = v], jumped |-> FALSE]
        ELSE [pt |-> [pt EXCEPT ![IdxOf(p)] =
                        [@ EXCEPT !.state = PROC_BLOCKED_SEM,
                                  !.blocked_sem_id = sem_id,
                                  !.next_blocked = st[s].blocked_list]],
              st |-> [st EXCEPT ![s] = [@ EXCEPT !.value = v,
                                                 !.blocked_list = p]],
              jumped |-> TRUE]

\* the last PCB of the list that starts at p (p itself after n links)
RECURSIVE LastOf(_, _, _)
LastOf(pt, p, n) ==
    IF n = 0 \/ pt[IdxOf(p)].next_blocked = NULL THEN p
    ELSE LastOf(pt, pt[IdxOf(p)].next_blocked, n - 1)

\* sem_wait queueing the blocking task at the tail of the list (a variant
\* against which C33 is checked to fail)
sem_wait_tail(pt, st, cur, sem_id) ==
    LET s == sem_get(st, sem_id)
        p == pid_to_proc(pt, cur)
        v == st[s].value - 1
        blocked == [pt EXCEPT ![IdxOf(p)] =
                      [@ EXCEPT !.state = PROC_BLOCKED_SEM,
                                !.blocked_sem_id = sem_id,
                                !.next_blocked = NULL]]
    IN  IF s = -1 THEN [pt |-> pt, st |-> st, jumped |-> FALSE]
        ELSE IF v >= 0
             THEN [pt |-> pt, st |-> [st EXCEPT ![s].value = v], jumped |-> FALSE]
        ELSE IF p = NULL
             THEN [pt |-> pt, st |-> [st EXCEPT ![s].value = v], jumped |-> TRUE]
        ELSE IF st[s].blocked_list = NULL
             THEN [pt |-> blocked,
                   st |-> [st EXCEPT ![s] = [@ EXCEPT !.value = v,
                                                      !.blocked_list = p]],
                   jumped |-> TRUE]
        ELSE [pt |-> [blocked EXCEPT
                        ![IdxOf(LastOf(pt, st[s].blocked_list, MAX_PROCS))]
                            .next_blocked = p],
              st |-> [st EXCEPT ![s].value = v],
              jumped |-> TRUE]

\* sem_wait on table pt, semaphores st, with current cur: the new tables and
\* whether control jumped to kernel_resume_pc
sem_wait(pt, st, cur, sem_id) ==
    LET s == sem_get(st, sem_id)
        p == pid_to_proc(pt, cur)
        v == st[s].value - 1
    IN  IF s = -1 THEN [pt |-> pt, st |-> st, jumped |-> FALSE]
        ELSE IF v >= 0
             THEN [pt |-> pt, st |-> [st EXCEPT ![s].value = v], jumped |-> FALSE]
        ELSE IF p # NULL
             THEN [pt |-> [pt EXCEPT ![IdxOf(p)] =
                             [@ EXCEPT !.state = PROC_BLOCKED_SEM,
                                       !.blocked_sem_id = sem_id,
                                       !.next_blocked = st[s].blocked_list]],
                   st |-> [st EXCEPT ![s] = [@ EXCEPT !.value = v,
                                                      !.blocked_list = p]],
                   jumped |-> TRUE]
        ELSE [pt |-> pt, st |-> [st EXCEPT ![s].value = v], jumped |-> TRUE]

\* sem_signal that empties the blocked list instead of unlinking its head (a
\* faulty variant, against which C13 is checked to fail)
sem_signal_drops_rest(pt, st, sem_id) ==
    LET s == sem_get(st, sem_id)
        v == st[s].value + 1
        p == st[s].blocked_list
    IN  IF s = -1 THEN [pt |-> pt, st |-> st]
        ELSE IF v <= 0 /\ p # NULL
             THEN [pt |-> [pt EXCEPT ![IdxOf(p)] =
                             [@ EXCEPT !.next_blocked = NULL,
                                       !.state = PROC_READY,
                                       !.blocked_sem_id = -1]],
                   st |-> [st EXCEPT ![s] = [@ EXCEPT !.value = v,
                                                      !.blocked_list = NULL]]]
        ELSE [pt |-> pt, st |-> [st EXCEPT ![s].value = v]]

\* sem_signal: the new tables
sem_signal(pt, st, sem_id) ==
    LET s == sem_get(st, sem_id)
        v == st[s].value + 1
        p == st[s].blocked_list
    IN  IF s = -1 THEN [pt |-> pt, st |-> st]
        ELSE IF v <= 0 /\ p # NULL
             THEN [pt |-> [pt EXCEPT ![IdxOf(p)] =
                             [@ EXCEPT !.next_blocked = NULL,
                                       !.state = PROC_READY,
                                       !.blocked_sem_id = -1]],
                   st |-> [st EXCEPT ![s] =
                             [@ EXCEPT !.value = v,
                                       !.blocked_list = pt[IdxOf(p)].next_blocked]]]
        ELSE [pt |-> pt, st |-> [st EXCEPT ![s].value = v]]

\* sem_destroy refusing a semaphore that still has waiters (a variant
\* against which C32 is checked to fail)
sem_destroy_refuses(st, sem_id) ==
    LET s == sem_get(st, sem_id)
    IN  IF s = -1 \/ st[s].blocked_list # NULL THEN [st |-> st, ret |-> FALSE]
        ELSE [st |-> [st EXCEPT ![s] = [@ EXCEPT !.in_use = FALSE, !.id = 0,
                                                 !.value = 0,
                                                 !.blocked_list = NULL]],
              ret |-> TRUE]

\* sem_destroy: the new semaphore table and the value returned
sem_destroy(st, sem_id) ==
    LET s == sem_get(st, sem_id)
    IN  IF s = -1 THEN [st |-> st, ret |-> FALSE]
        ELSE [st |-> [st EXCEPT ![s] = [@ EXCEPT !.in_use = FALSE, !.id = 0,
                                                 !.value = 0,
                                                 !.blocked_list = NULL]],
              ret |-> TRUE]

\* reclamation that forgets to clear the pid (a faulty variant, against which
\* C8 is checked to fail)
ReclaimedKeepsPid(pcb) == [FreePCB EXCEPT !.pid = pcb.pid]

\* the PCB the return hook leaves in place of a ZOMBIE
Reclaimed(pcb) == FreePCB

\* a return hook that reclaims nothing (a faulty variant, against which C37
\* is checked to fail)
ReturnHookTableKeeps(pt, cur) == pt

\* the effect of scheduler_process_return on the process table
ReturnHookTable(pt, cur) ==
    LET p == pid_to_proc(pt, cur)
    IN  IF p # NULL /\ pt[IdxOf(p)].state = PROC_ZOMBIE
        THEN [pt EXCEPT ![IdxOf(p)] = Reclaimed(@)]
        ELSE pt

-----------------------------------------------------------------------------
(* What tasks do *)

\* Entries whose code is fixed by a test scenario; every other entry (a
\* loaded binary, the harness's "task") may issue any ecall or return.
Say(c) == [k |-> "print", c |-> c, id |-> 0, a0 |-> 0]
Ecall(id, a0) == [k |-> "ecall", c |-> "", id |-> id, a0 |-> a0]
YieldLoop(c) == <<Say(c), Say(c), Ecall(SYSCALL_YIELD, 0), Say(c),
                  Ecall(SYSCALL_EXIT, 0)>>
Script(fn) ==
    CASE fn = "A" -> YieldLoop("A")
      [] fn = "B" -> YieldLoop("B")
      [] fn = "mutex" -> <<Ecall(SYSCALL_SEM_WAIT, 1), Say("x"),
                           Ecall(SYSCALL_YIELD, 0), Say("y"),
                           Ecall(SYSCALL_SEM_SIGNAL, 1), Ecall(SYSCALL_EXIT, 0)>>
      [] fn = "consumer" -> <<Ecall(SYSCALL_SEM_WAIT, 1), Say("c"),
                              Ecall(SYSCALL_SEM_SIGNAL, 2), Ecall(SYSCALL_EXIT, 0)>>
      [] fn = "producer" -> <<Ecall(SYSCALL_SEM_WAIT, 2), Say("p"),
                              Ecall(SYSCALL_SEM_SIGNAL, 1), Ecall(SYSCALL_EXIT, 0)>>
      [] fn = "waiter" -> <<Ecall(SYSCALL_SEM_WAIT, 1), Say("w"),
                            Ecall(SYSCALL_EXIT, 0)>>
      [] fn = "signaller" -> <<Ecall(SYSCALL_SEM_SIGNAL, 1), Ecall(SYSCALL_EXIT, 0)>>
      [] OTHER -> <<>>
Scripted(fn) ==
    fn \in {"A", "B", "mutex", "consumer", "producer", "waiter", "signaller"}

SyscallName(id) ==
    CASE id = SYSCALL_EXIT -> "exit"
      [] id = SYSCALL_YIELD -> "yield"
      [] id = SYSCALL_SEM_CREATE -> "sem_create"
      [] id = SYSCALL_SEM_WAIT -> "sem_wait"
      [] id = SYSCALL_SEM_SIGNAL -> "sem_signal"
      [] id = SYSCALL_SEM_DESTROY -> "sem_destroy"
      [] OTHER -> "unknown"

\* the entry of the process named by current
CurrentEntry ==
    LET p == pid_to_proc(proc_table, current)
    IN  IF p = NULL THEN NullFn ELSE proc_table[IdxOf(p)].entry

Op(op, pid, arg, ret) == [op |-> op, pid |-> pid, arg |-> arg, ret |-> ret]

-----------------------------------------------------------------------------
(* fat.h, fat.cpp: the in-memory filesystem *)

\* A Directory* is NULL, RootDir (&root) or i + 1 for &dir_pool[i]; a File*
\* is NULL or i + 1 for &file_pool[i].
RootDir == MAX_DIRS + 1
PoolDirs == 1 .. MAX_DIRS
DirPtrs == 1 .. (MAX_DIRS + 1)
FilePtrs == 1 .. MAX_FILES
DataIdx == 0 .. (MAX_FILE_SIZE - 1)

\* A string is the sequence of its bytes, without the terminator.
MinOf(S) == CHOOSE x \in S : \A y \in S : x <= y
MaxOf(S) == CHOOSE x \in S : \A y \in S : x >= y

\* the bytes of s before its first zero byte
UpToNul(s) ==
    LET z == {i \in 1 .. Len(s) : s[i] = 0}
    IN  IF z = {} THEN s ELSE SubSeq(s, 1, MinOf(z) - 1)

\* n copies of the byte c
Rep(c, n) == [i \in 1 .. n |-> c]

\* A directory's subdirs[0 .. subdir_count-1] and files[0 .. file_count-1]
\* are the sequences subdirs and files; the array cells past the counts are
\* never read. The object fat has static storage, so it is zero before its
\* constructor runs.
ZeroDir == [name |-> <<>>, parent |-> NULL, subdirs |-> <<>>, files |-> <<>>,
            used |-> FALSE]
ZeroFile == [name |-> <<>>, data |-> [i \in DataIdx |-> 0], size |-> 0,
             used |-> FALSE]

\* FAT::FAT
FAT_ctor ==
    [dirs |-> [d \in DirPtrs |->
                 IF d = RootDir
                 THEN [ZeroDir EXCEPT !.name = <<CH_SLASH>>, !.used = TRUE]
                 ELSE ZeroDir],
     files |-> [f \in FilePtrs |-> ZeroFile]]

\* The string strcmp reads at f->name. name holds the bytes of the name
\* field up to its terminator; a field filled to its MAX_NAME_LEN bytes has
\* none, and the read goes on through data and the low byte of size, which
\* follow it in the struct.
FileName(f) ==
    IF Len(f.name) < MAX_NAME_LEN THEN f.name
    ELSE f.name \o UpToNul([i \in 1 .. MAX_FILE_SIZE |-> f.data[i - 1]]
                             \o <<f.size % 256, 0>>)

\* FAT::find_subdir
find_subdir(F, dir, name) ==
    LET l == F.dirs[dir].subdirs
        m == {i \in 1 .. Len(l) : F.dirs[l[i]].name = name}
    IN  IF m = {} THEN NULL ELSE l[MinOf(m)]

\* FAT::find_file
find_file(F, dir, name) ==
    LET l == F.dirs[dir].files
        m == {i \in 1 .. Len(l) : FileName(F.files[l[i]]) = name}
    IN  IF m = {} THEN NULL ELSE l[MinOf(m)]

\* the bytes of path before its first '/', at most PART_MAX of them
FirstPart(path) ==
    LET z == {i \in 1 .. Len(path) : path[i] = CH_SLASH}
        e == IF z = {} THEN Len(path) ELSE MinOf(z) - 1
    IN  SubSeq(path, 1, Min(e, PART_MAX))

\* FAT::find_subdir_recursive
RECURSIVE find_subdir_recursive(_, _, _)
find_subdir_recursive(F, start, path) ==
    IF start = NULL \/ path = <<>> THEN start
    ELSE LET buf == FirstPart(path)
             i == Len(buf)
             next == find_subdir(F, start, buf)
         IN  IF next = NULL THEN NULL
             ELSE IF i < Len(path) /\ path[i + 1] = CH_SLASH
                  THEN find_subdir_recursive(F, next,
                                             SubSeq(path, i + 2, Len(path)))
             ELSE next

\* is_name_invalid
is_name_invalid(name) ==
    \/ name = <<>>
    \/ \E i \in 1 .. Len(name) : name[i] = CH_SLASH
    \/ \A i \in 1 .. Len(name) : name[i] = CH_SPACE

\* a new directory whose parent link is left null (a faulty variant, against
\* which C28 is checked to fail)
NewDirNoParent(stored, dir) == [ZeroDir EXCEPT !.name = stored, !.used = TRUE]

\* the fields mkdir gives the pool entry it claims
NewDir(stored, dir) ==
    [name |-> stored, parent |-> dir, subdirs |-> <<>>, files |-> <<>>,
     used |-> TRUE]

\* FAT::mkdir. Its strcpy has no length check; the only call in the program
\* is the one in mkdir_recursive, which passes a segment shorter than
\* MAX_NAME_LEN, so the name always fits the field.
mkdir(F, dir, name) ==
    LET free == {i \in PoolDirs : ~F.dirs[i].used}
        i == MinOf(free)
        stored == name
    IN  IF \/ is_name_invalid(name)
           \/ Len(F.dirs[dir].subdirs) >= MAX_DIRS
           \/ find_subdir(F, dir, name) # NULL
           \/ free = {}
        THEN [fat |-> F, ret |-> NULL]
        ELSE [fat |-> [F EXCEPT !.dirs =
                         [[@ EXCEPT ![i] = NewDir(stored, dir)]
                             EXCEPT ![dir].subdirs = Append(@, i)]],
              ret |-> i]

\* FAT::mkdir_recursive from its loop on: curr and the rest of the path
\* from seg_start
RECURSIVE mkdir_walk(_, _, _)
mkdir_walk(F, curr, rest) ==
    IF rest = <<>> THEN [fat |-> F, ret |-> curr]
    ELSE LET z == {i \in 1 .. Len(rest) : rest[i] = CH_SLASH}
             len == IF z = {} THEN Len(rest) ELSE MinOf(z) - 1
             seg_name == SubSeq(rest, 1, len)
             found == find_subdir(F, curr, seg_name)
             m == IF found # NULL THEN [fat |-> F, ret |-> found]
                  ELSE mkdir(F, curr, seg_name)
         IN  IF len = 0 \/ len >= MAX_NAME_LEN THEN [fat |-> F, ret |-> NULL]
             ELSE IF m.ret = NULL THEN [fat |-> m.fat, ret |-> NULL]
             ELSE mkdir_walk(m.fat, m.ret, SubSeq(rest, len + 2, Len(rest)))

\* FAT::mkdir_recursive
mkdir_recursive(F, start, path) ==
    IF start = NULL \/ path = <<>> THEN [fat |-> F, ret |-> NULL]
    ELSE mkdir_walk(F, start, path)

\* the hole filled with the last element (a faulty variant, against which
\* C25 is checked to fail)
RemoveAtSwap(s, i) ==
    IF i = Len(s) THEN SubSeq(s, 1, i - 1)
    ELSE SubSeq(s, 1, i - 1) \o <<s[Len(s)]>> \o SubSeq(s, i + 1, Len(s) - 1)

\* the child array without its element i, the rest moved down by one
RemoveAt(s, i) == SubSeq(s, 1, i - 1) \o SubSeq(s, i + 1, Len(s))

\* rmdir that leaves the pool entry in use (a faulty variant, against which
\* C26 is checked to fail)
rmdir_keeps_used(F, dir, name) ==
    LET l == F.dirs[dir].subdirs
        m == {i \in 1 .. Len(l) : F.dirs[l[i]].name = name}
        sub == l[MinOf(m)]
    IN  IF m = {} THEN [fat |-> F, ret |-> FALSE]
        ELSE IF Len(F.dirs[sub].subdirs) > 0 \/ Len(F.dirs[sub].files) > 0
             THEN [fat |-> F, ret |-> FALSE]
        ELSE [fat |-> [F EXCEPT !.dirs[dir].subdirs = RemoveAt(@, MinOf(m))],
              ret |-> TRUE]

\* FAT::rmdir
rmdir(F, dir, name) ==
    LET l == F.dirs[dir].subdirs
        m == {i \in 1 .. Len(l) : F.dirs[l[i]].name = name}
        i == MinOf(m)
        sub == l[i]
    IN  IF m = {} THEN [fat |-> F, ret |-> FALSE]
        ELSE IF Len(F.dirs[sub].subdirs) > 0 \/ Len(F.dirs[sub].files) > 0
             THEN [fat |-> F, ret |-> FALSE]
        ELSE [fat |-> [F EXCEPT !.dirs =
                         [[@ EXCEPT ![sub].used = FALSE]
                             EXCEPT ![dir].subdirs = RemoveAt(@, i)]],
              ret |-> TRUE]

\* FAT::touch_recursive: the directory returned and the name left in
\* out_name
touch_recursive(F, start, path) ==
    LET z == {i \in 1 .. Len(path) : path[i] = CH_SLASH}
        last_slash == MaxOf(z)
        out_name == SubSeq(path, last_slash + 1,
                           Min(Len(path), last_slash + PART_MAX))
    IN  IF z = {}
        THEN [dir |-> start, name |-> SubSeq(path, 1, Min(Len(path), PART_MAX))]
        ELSE IF is_name_invalid(out_name) THEN [dir |-> NULL, name |-> out_name]
        ELSE [dir |-> find_subdir_recursive(F, start,
                                            SubSeq(path, 1, last_slash - 1)),
              name |-> out_name]

\* strcpy(f->name, name) on a File: the name field takes the first
\* MAX_NAME_LEN bytes, and what is left, terminator included, lands in data
StrcpyName(f, name) ==
    LET s == name \o <<0>>
    IN  [f EXCEPT !.name = SubSeq(name, 1, Min(Len(name), MAX_NAME_LEN)),
                  !.data = [k \in DataIdx |->
                              IF MAX_NAME_LEN + k + 1 <= Len(s)
                              THEN s[MAX_NAME_LEN + k + 1] ELSE @[k]]]

\* FAT::touch
touch(F, dir, name) ==
    LET free == {i \in FilePtrs : ~F.files[i].used}
        i == MinOf(free)
    IN  IF \/ is_name_invalid(name)
           \/ Len(F.dirs[dir].files) >= MAX_FILES
           \/ find_file(F, dir, name) # NULL
           \/ free = {}
        THEN [fat |-> F, ret |-> NULL]
        ELSE [fat |-> [F EXCEPT
                         !.files[i] = [StrcpyName(@, name)
                                          EXCEPT !.used = TRUE, !.size = 0],
                         !.dirs[dir].files = Append(@, i)],
              ret |-> i]

\* rm that leaves the pool entry in use (a faulty variant, against which
\* C27 is checked to fail)
rm_keeps_used(F, dir, name) ==
    LET l == F.dirs[dir].files
        m == {i \in 1 .. Len(l) : FileName(F.files[l[i]]) = name}
    IN  IF m = {} THEN [fat |-> F, ret |-> FALSE]
        ELSE [fat |-> [F EXCEPT !.dirs[dir].files = RemoveAt(@, MinOf(m))],
              ret |-> TRUE]

\* FAT::rm
rm(F, dir, name) ==
    LET l == F.dirs[dir].files
        m == {i \in 1 .. Len(l) : FileName(F.files[l[i]]) = name}
        i == MinOf(m)
    IN  IF m = {} THEN [fat |-> F, ret |-> FALSE]
        ELSE [fat |-> [F EXCEPT !.files[l[i]].used = FALSE,
                                !.dirs[dir].files = RemoveAt(@, i)],
              ret |-> TRUE]

\* FAT::mv
mv(F, src_dir, name, dest_dir) ==
    LET f == find_file(F, src_dir, name)
        r == rm(F, src_dir, name)
    IN  IF f = NULL \/ Len(F.dirs[dest_dir].files) >= MAX_FILES
        THEN [fat |-> F, ret |-> FALSE]
        ELSE [fat |-> [r.fat EXCEPT !.dirs[dest_dir].files = Append(@, f)],
              ret |-> TRUE]

-----------------------------------------------------------------------------
(* Initial states *)

ShellName == <<"s", "h", "e", "l", "l">>
TaskName == <<"t", "a", "s", "k">>
ProgName == <<"c", "o", "u", "n", "t", "e", "r">>
StackSizes == {DEFAULT_STACK_SIZE}
\* binary_size of the embedded programs
BinarySizes == {0, 20}

KState(pt, nb, np, hp) == [pt |-> pt, nb |-> nb, np |-> np, hp |-> hp]

\* the kernel state scheduler_init leaves, on a fresh heap
AfterInit == KState(InitProcTable, [i \in Slots |-> <<>>], 1, KernelHeapStart)

\* create_process called once for each element of reqs, in order
RECURSIVE CreateAll(_, _)
CreateAll(k, reqs) ==
    IF reqs = <<>> THEN k
    ELSE CreateAll(create_process(k, Fn(Head(reqs).fn), TaskName,
                                  Head(reqs).size).k,
                   Tail(reqs))

Common(k, st, nsid, scen) ==
    /\ proc_table = k.pt
    /\ proc_name_buf = k.nb
    /\ next_pid = k.np
    /\ heap_ptr = k.hp
    /\ sem_table = st
    /\ next_sem_id = nsid
    /\ current = -1
    /\ kernel_saved_sp = "none"
    /\ kernel_resume_pc = "none"
    /\ start_idx = 0
    /\ ip = 0
    /\ out = <<>>
    /\ trace = <<>>
    /\ scenario = scen
    /\ cmd_pid = 0
    /\ allocs = <<>>
    /\ fat = FAT_ctor
    /\ last = Op("init", 0, 0, 0)

\* The image as loaded: zero-initialised tables, kernel_main about to call
\* scheduler_main.
InitBoot ==
    /\ Common(KState([i \in Slots |-> ZeroPCB], [i \in Slots |-> <<>>], 1,
                     KernelHeapStart),
              InitSemTable, 1, "boot")
    /\ ctl = "boot"

\* A test harness has called scheduler_init and then create_process for up
\* to MaxHarness tasks of arbitrary behaviour; the scheduler loop starts.
InitHarness ==
    \E n \in 0 .. MaxHarness :
      \E sizes \in [1 .. n -> StackSizes] :
        /\ Common(CreateAll(AfterInit,
                            [j \in 1 .. n |-> [fn |-> "task", size |-> sizes[j]]]),
                  InitSemTable, 1, "harness")
        /\ ctl = "loop"

\* Scenario 1 of the test plan: tasks A and B created in that order.
InitYield ==
    /\ Common(CreateAll(AfterInit, <<[fn |-> "A", size |-> DEFAULT_STACK_SIZE],
                                     [fn |-> "B", size |-> DEFAULT_STACK_SIZE]>>),
              InitSemTable, 1, "yield")
    /\ ctl = "loop"

\* Scenario 2: sid = sem_create(1), then two tasks running the same entry.
InitMutex ==
    LET s == sem_create(InitSemTable, 1, -1, 1)
    IN  /\ Common(CreateAll(AfterInit,
                            <<[fn |-> "mutex", size |-> DEFAULT_STACK_SIZE],
                              [fn |-> "mutex", size |-> DEFAULT_STACK_SIZE]>>),
                  s.st, s.nsid, "mutex")
        /\ ctl = "loop"

\* Scenario 3: full = sem_create(0) (id 1), empty = sem_create(1) (id 2),
\* the consumer created first.
InitProdCons ==
    LET full == sem_create(InitSemTable, 1, -1, 0)
        empty == sem_create(full.st, full.nsid, -1, 1)
    IN  /\ Common(CreateAll(AfterInit,
                            <<[fn |-> "consumer", size |-> DEFAULT_STACK_SIZE],
                              [fn |-> "producer", size |-> DEFAULT_STACK_SIZE]>>),
                  empty.st, empty.nsid, "prodcons")
        /\ ctl = "loop"

\* sid = sem_create(0), two tasks that wait on it and one that signals it
InitWaiters ==
    LET s == sem_create(InitSemTable, 1, -1, 0)
    IN  /\ Common(CreateAll(AfterInit,
                            <<[fn |-> "waiter", size |-> DEFAULT_STACK_SIZE],
                              [fn |-> "waiter", size |-> DEFAULT_STACK_SIZE],
                              [fn |-> "signaller", size |-> DEFAULT_STACK_SIZE]>>),
                  s.st, s.nsid, "waiters")
        /\ ctl = "loop"

Init ==
    \/ InitBoot
    \/ InitHarness
    \/ InitYield
    \/ InitMutex
    \/ InitProdCons
    \/ InitWaiters

-----------------------------------------------------------------------------
(* scheduler.cpp: the scheduler *)

\* run_process(p), called from the frame `frame` ("sched" or "shell"), on
\* process table pt. With p or p->entry null it returns at once.
run_process(pt, p, frame) ==
    IF p = NULL \/ pt[IdxOf(p)].entry = NullFn
    THEN /\ proc_table' = pt
         /\ ctl' = IF frame = "shell" THEN "shell" ELSE "loop"
         /\ UNCHANGED <<current, kernel_saved_sp, kernel_resume_pc, ip>>
    ELSE /\ kernel_saved_sp' = frame
         /\ kernel_resume_pc' = "scheduler_process_return"
         /\ current' = pt[IdxOf(p)].pid
         /\ proc_table' = [pt EXCEPT ![IdxOf(p)].state = PROC_RUNNING]
         /\ ctl' = IF pt[IdxOf(p)].entry.fn = "shell_main" THEN "shell" ELSE "task"
         /\ ip' = 1

\* scheduler_main up to its loop: scheduler_init, then the shell bootstrap
scheduler_main ==
    /\ ctl = "boot"
    /\ LET k0 == KState(InitProcTable, proc_name_buf, 1, heap_ptr)
           has_any == \E i \in Slots : k0.pt[i].state # PROC_FREE
           r == IF has_any THEN [k |-> k0, ret |-> 0]
                ELSE create_process(k0, Fn("shell_main"), ShellName,
                                    DEFAULT_STACK_SIZE)
       IN  /\ proc_table' = r.k.pt
           /\ proc_name_buf' = r.k.nb
           /\ next_pid' = r.k.np
           /\ heap_ptr' = r.k.hp
           /\ last' = Op("scheduler_main", -1, 0, r.ret)
    /\ sem_table' = InitSemTable
    /\ next_sem_id' = 1
    /\ current' = -1
    /\ start_idx' = 0
    /\ ctl' = "loop"
    /\ UNCHANGED <<kernel_saved_sp, kernel_resume_pc, ip, out, trace, scenario, cmd_pid, allocs, fat>>

\* the scan always restarting at slot 0 (a faulty variant, against which C17
\* is checked to fail)
NextStartZero(next_idx) == 0

\* start_idx = (next_idx + 1) % MAX_PROCS
NextStart(next_idx) == (next_idx + 1) % MAX_PROCS

\* one iteration of scheduler_main's loop
scheduler_loop ==
    /\ ctl = "loop"
    /\ LET next == find_next_ready(proc_table, start_idx)
       IN  IF next # NULL
           THEN /\ start_idx' = NextStart(IdxOf(next))
                /\ run_process(proc_table, next, "sched")
                /\ last' = Op("run_process", proc_table[IdxOf(next)].pid,
                              IdxOf(next), 0)
           ELSE /\ last' = Op("wfi", -1, 0, 0)
                /\ UNCHANGED <<start_idx, proc_table, current, kernel_saved_sp,
                               kernel_resume_pc, ctl, ip>>
    /\ UNCHANGED <<proc_name_buf, next_pid, sem_table, next_sem_id, heap_ptr,
                   out, trace, scenario, cmd_pid, allocs, fat>>

\* scheduler_process_return, entered by call (run_process) or by jump to
\* kernel_resume_pc; it restores the stack pointer run_process saved, so
\* control continues in the frame that called run_process
scheduler_process_return ==
    /\ ctl = "hook"
    /\ proc_table' = ReturnHookTable(proc_table, current)
    /\ current' = -1
    /\ ctl' = IF kernel_saved_sp = "shell" THEN "shell" ELSE "loop"
    /\ ip' = 0
    /\ last' = Op("hook", current, 0,
                   IF ReturnHookTable(proc_table, current) # proc_table
                   THEN 1 ELSE 0)
    /\ UNCHANGED <<proc_name_buf, next_pid, sem_table, next_sem_id,
                   kernel_saved_sp, kernel_resume_pc, heap_ptr, start_idx,
                   out, trace, scenario, cmd_pid, allocs, fat>>

-----------------------------------------------------------------------------
(* trap.cpp *)

\* every cause taken for an environment call (a faulty variant, against which
\* C16 is checked to fail)
IsEcallAlways(cause) == TRUE

\* cause == 11
IsEcall(cause) == cause = ECALL_FROM_U

\* trap_handler with mcause = cause, a7 = syscall_id, a0 = arg0, entered from
\* the executing task. adv is how far ip moves when mepc is advanced past
\* the ecall and the task goes on.
trap_handler(cause, syscall_id, arg0, adv) ==
    /\ ctl = "task"
    /\ UNCHANGED <<proc_name_buf, next_pid, current, kernel_saved_sp,
                   kernel_resume_pc, heap_ptr, start_idx, scenario, cmd_pid, allocs, fat>>
    /\ IF ~IsEcall(cause)
       THEN /\ ctl' = "fatal"
            /\ last' = Op("fatal", current, cause, 0)
            /\ UNCHANGED <<proc_table, sem_table, next_sem_id, ip>>
       ELSE CASE syscall_id = SYSCALL_EXIT ->
                   /\ proc_table' = IF current > 0
                                    THEN terminate_process(proc_table, current)
                                    ELSE proc_table
                   /\ ctl' = "hook"
                   /\ last' = Op("exit", current, arg0, 0)
                   /\ UNCHANGED <<sem_table, next_sem_id, ip>>
              [] syscall_id = SYSCALL_YIELD ->
                   /\ LET p == pid_to_proc(proc_table, current)
                      IN  proc_table' =
                            IF p # NULL /\ proc_table[IdxOf(p)].state = PROC_RUNNING
                            THEN [proc_table EXCEPT ![IdxOf(p)].state = PROC_READY]
                            ELSE proc_table
                   /\ ctl' = "hook"
                   /\ last' = Op("yield", current, arg0, 0)
                   /\ UNCHANGED <<sem_table, next_sem_id, ip>>
              [] syscall_id = SYSCALL_SEM_CREATE ->
                   /\ LET r == sem_create(sem_table, next_sem_id, current, arg0)
                      IN  /\ sem_table' = r.st
                          /\ next_sem_id' = r.nsid
                          /\ last' = Op("sem_create", current, arg0, r.ret)
                   /\ ip' = ip + adv
                   /\ UNCHANGED <<proc_table, ctl>>
              [] syscall_id = SYSCALL_SEM_WAIT ->
                   /\ LET r == sem_wait(proc_table, sem_table, current, arg0)
                      IN  /\ proc_table' = r.pt
                          /\ sem_table' = r.st
                          /\ ctl' = IF r.jumped THEN "hook" ELSE "task"
                          /\ ip' = IF r.jumped THEN ip ELSE ip + adv
                          /\ last' = Op("sem_wait", current, arg0,
                                        IF r.jumped THEN 1 ELSE 0)
                   /\ UNCHANGED next_sem_id
              [] syscall_id = SYSCALL_SEM_SIGNAL ->
                   /\ LET r == sem_signal(proc_table, sem_table, arg0)
                      IN  /\ proc_table' = r.pt
                          /\ sem_table' = r.st
                   /\ ip' = ip + adv
                   /\ last' = Op("sem_signal", current, arg0, 0)
                   /\ UNCHANGED <<next_sem_id, ctl>>
              [] syscall_id = SYSCALL_SEM_DESTROY ->
                   /\ LET r == sem_destroy(sem_table, arg0)
                      IN  /\ sem_table' = r.st
                          /\ last' = Op("sem_destroy", current, arg0,
                                        IF r.ret THEN 0 ELSE -1)
                   /\ ip' = ip + adv
                   /\ UNCHANGED <<proc_table, next_sem_id, ctl>>
              [] OTHER ->
                   /\ ctl' = "hook"
                   /\ last' = Op("unknown", current, syscall_id, 0)
                   /\ UNCHANGED <<proc_table, sem_table, next_sem_id, ip>>

-----------------------------------------------------------------------------
(* The executing task: a loaded binary or a harness task may do anything *)

Unscripted == ctl = "task" /\ ~Scripted(CurrentEntry.fn)
SemIds == 0 .. MaxSemId
ValueOf(sem_id) == sem_table[sem_get(sem_table, sem_id)].value

SyscallExit ==
    Unscripted /\ trap_handler(ECALL_FROM_U, SYSCALL_EXIT, 0, 0)
               /\ UNCHANGED <<out, trace>>

SyscallYield ==
    Unscripted /\ trap_handler(ECALL_FROM_U, SYSCALL_YIELD, 0, 0)
               /\ UNCHANGED <<out, trace>>

SyscallSemCreate ==
    /\ Unscripted
    /\ next_sem_id <= MaxSemId \/ find_free_sem_slot(sem_table) = -1
    /\ \E v \in -1 .. MaxValue :
          trap_handler(ECALL_FROM_U, SYSCALL_SEM_CREATE, v, 0)
    /\ UNCHANGED <<out, trace>>

SyscallSemWait ==
    /\ Unscripted
    /\ \E id \in SemIds : trap_handler(ECALL_FROM_U, SYSCALL_SEM_WAIT, id, 0)
    /\ UNCHANGED <<out, trace>>

SyscallSemSignal ==
    /\ Unscripted
    /\ \E id \in SemIds :
          /\ sem_get(sem_table, id) # -1 => ValueOf(id) < MaxValue
          /\ trap_handler(ECALL_FROM_U, SYSCALL_SEM_SIGNAL, id, 0)
    /\ UNCHANGED <<out, trace>>

SyscallSemDestroy ==
    /\ Unscripted
    /\ \E id \in SemIds : trap_handler(ECALL_FROM_U, SYSCALL_SEM_DESTROY, id, 0)
    /\ UNCHANGED <<out, trace>>

\* an a7 that is no syscall number
SyscallUnknown ==
    Unscripted /\ trap_handler(ECALL_FROM_U, 57005, 0, 0)
               /\ UNCHANGED <<out, trace>>

\* a trap that is no environment call (an illegal instruction, mcause 2)
FatalTrap ==
    Unscripted /\ trap_handler(2, 0, 0, 0) /\ UNCHANGED <<out, trace>>

\* p->entry() returns to run_process, which calls scheduler_process_return
EntryReturn ==
    /\ ctl = "task"
    /\ Scripted(CurrentEntry.fn) => ip > Len(Script(CurrentEntry.fn))
    /\ ctl' = "hook"
    /\ last' = Op("return", current, 0, 0)
    /\ UNCHANGED <<proc_table, proc_name_buf, next_pid, current, sem_table,
                   next_sem_id, kernel_saved_sp, kernel_resume_pc, heap_ptr,
                   start_idx, ip, out, trace, scenario, cmd_pid, allocs, fat>>

\* the next instruction of a scripted entry
ScriptStep ==
    /\ ctl = "task"
    /\ Scripted(CurrentEntry.fn)
    /\ ip <= Len(Script(CurrentEntry.fn))
    /\ Len(trace) < MaxTrace
    /\ LET ins == Script(CurrentEntry.fn)[ip]
       IN  IF ins.k = "print"
           THEN /\ out' = Append(out, ins.c)
                /\ trace' = Append(trace, ins.c)
                /\ ip' = ip + 1
                /\ last' = Op("print", current, 0, 0)
                /\ UNCHANGED <<proc_table, proc_name_buf, next_pid, current,
                               sem_table, next_sem_id, kernel_saved_sp,
                               kernel_resume_pc, heap_ptr, start_idx, ctl,
                               scenario, cmd_pid, allocs, fat>>
           ELSE /\ trap_handler(ECALL_FROM_U, ins.id, ins.a0, 1)
                /\ trace' = Append(trace, SyscallName(ins.id))
                /\ out' = out

-----------------------------------------------------------------------------
(* shell.cpp *)

\* cmd_run for an embedded program found by name, up to the return of
\* create_process_from_binary: pid is kept for the call that follows
cmd_run ==
    /\ ctl = "shell"
    /\ \E bs \in BinarySizes :
         LET r == create_process_from_binary(
                      KState(proc_table, proc_name_buf, next_pid, heap_ptr),
                      bs, ProgName, DEFAULT_STACK_SIZE)
         IN  /\ proc_table' = r.k.pt
             /\ proc_name_buf' = r.k.nb
             /\ next_pid' = r.k.np
             /\ heap_ptr' = r.k.hp
             /\ last' = Op("cmd_run", current, bs, r.ret)
             /\ cmd_pid' = r.ret
             /\ ctl' = IF r.ret <= 0 THEN "shell" ELSE "cmd_run"
    /\ UNCHANGED <<current, kernel_saved_sp, kernel_resume_pc, ip, sem_table,
                   next_sem_id, start_idx, out, trace, scenario, allocs, fat>>

\* scheduler_run_pid(pid), as cmd_run calls it from inside the shell
scheduler_run_pid ==
    /\ ctl = "cmd_run"
    /\ LET p == pid_to_proc(proc_table, cmd_pid)
       IN  IF p = NULL
           THEN /\ ctl' = "shell"
                /\ UNCHANGED <<proc_table, current, kernel_saved_sp,
                               kernel_resume_pc, ip>>
           ELSE run_process(proc_table, p, "shell")
    /\ last' = Op("run_process", cmd_pid, 0, 0)
    /\ UNCHANGED <<proc_name_buf, next_pid, heap_ptr, sem_table, next_sem_id,
                   start_idx, out, trace, scenario, cmd_pid, allocs, fat>>

-----------------------------------------------------------------------------
(* memory.cpp driven on its own *)

\* the sizes the driver asks for
MemSizes == {0, 1, 16, 17, 32}

\* the allocator with between 0 and MemSlack whole 16-byte units left below
\* heap_limit, after earlier allocations of any sizes
InitMem ==
    \E j \in 0 .. MemSlack :
        /\ Common(KState(InitProcTable, [i \in Slots |-> <<>>], 1,
                         ((heap_limit \div 16) - j) * 16),
                  InitSemTable, 1, "mem")
        /\ ctl = "mem"

\* one call kmalloc(size); a region returned is appended to allocs
kmalloc_call ==
    /\ ctl = "mem"
    /\ \E size \in MemSizes :
          LET r == kmalloc(heap_ptr, size)
          IN  /\ heap_ptr' = r.heap
              /\ allocs' = IF r.res # NULL
                            THEN Append(allocs, [base |-> r.res, size |-> size])
                            ELSE allocs
              /\ last' = Op("kmalloc", 0, size, r.res)
    /\ UNCHANGED <<proc_table, proc_name_buf, next_pid, current, sem_table,
                   next_sem_id, kernel_saved_sp, kernel_resume_pc, start_idx,
                   ctl, ip, out, trace, scenario, cmd_pid, fat>>

NextMem == kmalloc_call

SpecMem == InitMem /\ [][NextMem]_vars

-----------------------------------------------------------------------------
(* create_process driven on its own *)

\* the stack sizes the driver asks for
CreateSizes == {0, 8, 16, 24, 40, DEFAULT_STACK_SIZE}

\* scheduler_init has run on a fresh heap
InitCreate ==
    /\ Common(AfterInit, InitSemTable, 1, "create")
    /\ ctl = "create"

\* one call create_process(entry, "task", stack_size)
create_process_call ==
    /\ ctl = "create"
    /\ \E size \in CreateSizes :
          LET r == create_process(
                       KState(proc_table, proc_name_buf, next_pid, heap_ptr),
                       Fn("task"), TaskName, size)
          IN  /\ proc_table' = r.k.pt
              /\ proc_name_buf' = r.k.nb
              /\ next_pid' = r.k.np
              /\ heap_ptr' = r.k.hp
              /\ last' = Op("create_process", 0, size, r.ret)
    /\ UNCHANGED <<current, sem_table, next_sem_id, kernel_saved_sp,
                   kernel_resume_pc, start_idx, ctl, ip, out, trace, scenario,
                   cmd_pid, allocs, fat>>

NextCreate == create_process_call

SpecCreate == InitCreate /\ [][NextCreate]_vars

-----------------------------------------------------------------------------
(* shell.cpp: the filesystem commands, driven on their own *)

\* everything but the filesystem and the record of the latest step
KernelVars == <<proc_table, proc_name_buf, next_pid, current, sem_table,
                next_sem_id, kernel_saved_sp, kernel_resume_pc, heap_ptr,
                start_idx, ctl, ip, out, trace, scenario, cmd_pid, allocs>>

\* the record of a filesystem command: cwd, the name or path argument, a
\* second item (mv's destination, the directory touch_recursive chose, the
\* file cat or edit found, the number of directories mkdir_recursive
\* created) and what the call returned
FsOp(op, dir, name, dest, ret) ==
    [op |-> op, pid |-> dir, arg |-> name, dest |-> dest, ret |-> ret]

\* the record of cat, edit and append: cwd, the file name, the file found
\* and the bytes sent to the console (cat) or typed before Ctrl+D (the others)
FsIo(op, dir, name, f, bytes) ==
    [op |-> op, pid |-> dir, arg |-> name, dest |-> f, bytes |-> bytes]

\* a/b
Path(a, b) == a \o <<CH_SLASH>> \o b

\* "a", "b", a name of MAX_NAME_LEN - 1 bytes, one of MAX_NAME_LEN bytes,
\* the empty name and a blank one
NameA == <<97>>
NameB == <<98>>
Name15 == Rep(98, MAX_NAME_LEN - 1)
Name16 == Rep(98, MAX_NAME_LEN)

\* names "c", "cc", "ccc", ... : two more than the file pool has entries
FillNames == {Rep(99, n) : n \in 1 .. (MAX_FILES + 2)}

\* The arguments the commands are given depend on the set-up. "tree" builds
\* and prunes the directory tree from any directory; the others stay in the
\* root: "names" tries names and paths of files next to one directory,
\* "fill" fills the file pool, "file" moves files between directories,
\* "edit" writes and prints file contents.
Cwds(used) == IF scenario = "tree" THEN used ELSE {RootDir}
MkdirPaths ==
    IF scenario = "tree"
    THEN {NameA, NameB, Name15, Path(NameA, NameB), Path(NameA, <<>>),
          Path(<<>>, NameA), Path(NameA, Path(<<>>, NameA)),
          Path(NameA, Name16), Path(NameA, Path(NameA, NameA))}
    ELSE IF scenario \in {"names", "file"} THEN {NameA}
    ELSE {}
RmdirNames ==
    IF scenario = "tree" THEN {NameA, NameB, Name15, Name16, <<>>}
    ELSE IF scenario = "names" THEN {NameA}
    ELSE {}
TouchPaths ==
    IF scenario = "names"
    THEN {NameA, Name15, Name16, <<>>, <<CH_SPACE>>, Path(NameA, NameA),
          Path(NameA, <<>>), Path(NameB, NameA)}
    ELSE IF scenario = "fill" THEN FillNames
    ELSE IF scenario = "file" THEN {NameA, NameB}
    ELSE IF scenario = "edit" THEN {NameA}
    ELSE {}
RmNames ==
    IF scenario = "names" THEN {NameA, Name15, Name16, <<>>}
    ELSE IF scenario = "fill" THEN FillNames
    ELSE IF scenario = "file" THEN {NameA, NameB}
    ELSE {}
CatNames == {NameA, NameB}

\* what is typed into edit before Ctrl+D: up to MAX_FILE_SIZE + 1 keys
EditKeys == {97, CH_CR, CH_LF}
EditInputs == UNION {[1 .. n -> EditKeys] : n \in 0 .. (MAX_FILE_SIZE + 1)}

\* what a read one byte past data[] can return
OobBytes == {0, 97, CH_LF}

\* the directories a command can be in or name: cwd and the results of
\* traverse_path are directories of the tree
UsedDirs == {d \in DirPtrs : fat.dirs[d].used}
Cwd == Cwds(UsedDirs)

\* FAT::count_used_dirs
UsedCount(F) == Cardinality({d \in PoolDirs : F.dirs[d].used})

\* the constructor of the global object fat has run
InitFs(scen) ==
    /\ Common(AfterInit, InitSemTable, 1, scen)
    /\ ctl = "fat"

InitFat == InitFs("tree") \/ InitFs("names")
InitFill == InitFs("fill")
InitFile == InitFs("file")
InitEdit == InitFs("edit")

\* cmd_mkdir: fat.mkdir_recursive(cwd, args)
cmd_mkdir ==
    /\ ctl = "fat"
    /\ \E dir \in Cwd, path \in MkdirPaths :
          LET r == mkdir_recursive(fat, dir, path)
          IN  /\ fat' = r.fat
              /\ last' = FsOp("mkdir_recursive", dir, path,
                              UsedCount(r.fat) - UsedCount(fat), r.ret)
    /\ UNCHANGED KernelVars

\* cmd_rmdir: fat.rmdir(cwd, args)
cmd_rmdir ==
    /\ ctl = "fat"
    /\ \E dir \in Cwd, name \in RmdirNames :
          LET r == rmdir(fat, dir, name)
          IN  /\ fat' = r.fat
              /\ last' = FsOp("rmdir", dir, name, NULL, r.ret)
    /\ UNCHANGED KernelVars

\* cmd_touch: touch_recursive, then touch in the directory it returned
\* with the name it left in the buffer
cmd_touch ==
    /\ ctl = "fat"
    /\ \E dir \in Cwd, path \in TouchPaths :
          LET t == touch_recursive(fat, dir, path)
              r == IF t.dir = NULL THEN [fat |-> fat, ret |-> NULL]
                   ELSE touch(fat, t.dir, t.name)
          IN  /\ fat' = r.fat
              /\ last' = FsOp("touch", dir, path, t.dir, r.ret)
    /\ UNCHANGED KernelVars

\* cmd_rm: fat.rm(cwd, args)
cmd_rm ==
    /\ ctl = "fat"
    /\ \E dir \in Cwd, name \in RmNames :
          LET r == rm(fat, dir, name)
          IN  /\ fat' = r.fat
              /\ last' = FsOp("rm", dir, name, NULL, r.ret)
    /\ UNCHANGED KernelVars

\* cmd_mv: fat.mv(cwd, src_name, dest_dir)
cmd_mv ==
    /\ ctl = "fat"
    /\ \E dir \in Cwd, name \in RmNames, dest \in UsedDirs :
          LET r == mv(fat, dir, name, dest)
          IN  /\ fat' = r.fat
              /\ last' = FsOp("mv", dir, name, dest, r.ret)
    /\ UNCHANGED KernelVars

\* the loop of cmd_edit: the keys stored from pos on, until Ctrl+D is read
\* (keys holds what is typed before it) or the file is full
RECURSIVE edit_loop(_, _, _)
edit_loop(data, pos, keys) ==
    IF pos >= MAX_FILE_SIZE \/ keys = <<>> THEN [data |-> data, pos |-> pos]
    ELSE LET c == Head(keys)
             b == IF c = CH_CR \/ c = CH_LF THEN CH_LF ELSE c
         IN  edit_loop([data EXCEPT ![pos] = b], pos + 1, Tail(keys))

\* cmd_edit and cmd_append_wrapper
cmd_edit ==
    /\ ctl = "fat"
    /\ \E dir \in Cwd, name \in CatNames, keys \in EditInputs,
          append_mode \in BOOLEAN :
          LET f == find_file(fat, dir, name)
              e == edit_loop(fat.files[f].data,
                             IF append_mode THEN fat.files[f].size ELSE 0, keys)
          IN  /\ fat' = IF f = NULL THEN fat
                        ELSE [fat EXCEPT !.files[f] =
                                [@ EXCEPT !.data = e.data, !.size = e.pos,
                                          !.used = TRUE]]
              /\ last' = FsIo(IF append_mode THEN "append" ELSE "edit",
                              dir, name, f, keys)
    /\ UNCHANGED KernelVars

\* cmd_cat: the bytes it sends to the console (none if the file is not
\* found; the message printed then is not recorded). Its loop runs while
\* i <= f->size, so it also sends data[size]; for a full file that is a read
\* past the end of data.
cmd_cat ==
    /\ ctl = "fat"
    /\ \E dir \in Cwd, name \in CatNames :
          LET f == find_file(fat, dir, name)
              file == fat.files[f]
          IN  /\ \E oob \in OobBytes :
                    last' = FsIo("cat", dir, name, f,
                                 IF f = NULL THEN <<>>
                                 ELSE [i \in 1 .. (file.size + 1) |->
                                         IF i - 1 < MAX_FILE_SIZE
                                         THEN file.data[i - 1] ELSE oob]
                                      \o <<CH_LF>>)
              /\ fat' = fat
    /\ UNCHANGED KernelVars

NextFat ==
    \/ cmd_mkdir
    \/ cmd_rmdir
    \/ cmd_touch
    \/ cmd_rm

NextFile ==
    \/ cmd_mkdir
    \/ cmd_touch
    \/ cmd_rm
    \/ cmd_mv

NextFill ==
    \/ cmd_touch
    \/ cmd_rm

NextEdit ==
    \/ cmd_touch
    \/ cmd_edit
    \/ cmd_cat

SpecFat == InitFat /\ [][NextFat]_vars
SpecFill == InitFill /\ [][NextFill]_vars
SpecFile == InitFile /\ [][NextFile]_vars
SpecEdit == InitEdit /\ [][NextEdit]_vars

-----------------------------------------------------------------------------
Next ==
    \/ scheduler_main
    \/ scheduler_loop
    \/ scheduler_process_return
    \/ SyscallExit
    \/ SyscallYield
    \/ SyscallSemCreate
    \/ SyscallSemWait
    \/ SyscallSemSignal
    \/ SyscallSemDestroy
    \/ SyscallUnknown
    \/ FatalTrap
    \/ EntryReturn
    \/ ScriptStep
    \/ cmd_run
    \/ scheduler_run_pid

Spec == Init /\ [][Next]_vars

\* scheduler_main's while (1) never stops iterating: whenever control is at
\* the top of the loop, the next selection is made.
FairSpec == Spec /\ WF_vars(scheduler_loop)

-----------------------------------------------------------------------------
(* Properties *)

StateOf(i) == proc_table[i].state
InUse(s) == sem_table[s].in_use

\* the PCBs reached from pointer p along next_blocked, at most n of them
RECURSIVE Chain(_, _)
Chain(p, n) ==
    IF p = NULL \/ n = 0 THEN <<>>
    ELSE <<p>> \o Chain(proc_table[IdxOf(p)].next_blocked, n - 1)

\* the blocked list of semaphore slot s (cut after MAX_PROCS + 1 links, which
\* only a list with a cycle reaches)
BlockedList(s) == Chain(sem_table[s].blocked_list, MAX_PROCS + 1)
OnList(i, s) == \E j \in 1 .. Len(BlockedList(s)) : BlockedList(s)[j] = PtrOf(i)
Positions(i, s) == {j \in 1 .. Len(BlockedList(s)) : BlockedList(s)[j] = PtrOf(i)}

IsPrefix(a, b) == Len(a) <= Len(b) /\ SubSeq(b, 1, Len(a)) = a

\* number of positions at which the pair <<c, d>> occurs contiguously in q
Pairs(q, c, d) == Cardinality({j \in 1 .. (Len(q) - 1) : q[j] = c /\ q[j + 1] = d})

\* C1: in every reachable state at most one process-table slot is RUNNING.
C1_AtMostOneRunning ==
    Cardinality({i \in Slots : StateOf(i) = PROC_RUNNING}) <= 1

\* C2: every in-use semaphore with value >= 0 has an empty blocked list, and
\* one with value < 0 has exactly -value processes on it, all BLOCKED_SEM.
C2_SemCountMatchesWaiters ==
    \A s \in SemSlots :
        InUse(s) =>
            /\ sem_table[s].value >= 0 => BlockedList(s) = <<>>
            /\ sem_table[s].value < 0 =>
                  /\ Len(BlockedList(s)) = -sem_table[s].value
                  /\ \A j \in 1 .. Len(BlockedList(s)) :
                        StateOf(IdxOf(BlockedList(s)[j])) = PROC_BLOCKED_SEM

\* C3: a BLOCKED_SEM process is on the blocked list of exactly one in-use
\* semaphore, once, and its blocked_sem_id is that semaphore's id; a process
\* in any other state is on no blocked list.
C3_BlockedOnExactlyOneList ==
    \A i \in Slots :
        IF StateOf(i) = PROC_BLOCKED_SEM
        THEN /\ Cardinality({s \in SemSlots : InUse(s) /\ OnList(i, s)}) = 1
             /\ \A s \in SemSlots :
                   InUse(s) /\ OnList(i, s) =>
                      /\ Cardinality(Positions(i, s)) = 1
                      /\ proc_table[i].blocked_sem_id = sem_table[s].id
        ELSE \A s \in SemSlots : InUse(s) => ~OnList(i, s)


\* the step is a sem_signal, issued by a task other than slot i, on the
\* semaphore that slot i is blocked on
SignalledByOther(i) ==
    /\ ctl = "task"
    /\ current # proc_table[i].pid
    /\ last'.op = "sem_signal"
    /\ last'.arg = proc_table[i].blocked_sem_id
    /\ \E s \in SemSlots :
          /\ InUse(s)
          /\ sem_table[s].id = proc_table[i].blocked_sem_id
          /\ sem_table'[s].value = sem_table[s].value + 1

\* C4: a process in BLOCKED_SEM is not dispatched and its PCB does not change
\* in any step other than a sem_signal on its semaphore by another task,
\* which makes it READY (not RUNNING).
C4_BlockedUntilSignalled ==
    [][\A i \in Slots :
          StateOf(i) = PROC_BLOCKED_SEM =>
              \/ proc_table'[i] = proc_table[i]
              \/ SignalledByOther(i) /\ proc_table'[i].state = PROC_READY]_vars

\* C4 witness: the scheduler dispatched a task while another slot, which the
\* scan had to pass over, was BLOCKED_SEM on a live semaphore.
C4_Witness ==
    /\ last.op = "run_process"
    /\ \E i \in Slots :
          /\ StateOf(i) = PROC_BLOCKED_SEM
          /\ \E s \in SemSlots : InUse(s) /\ OnList(i, s)
          /\ proc_table[(i + 1) % MAX_PROCS].pid = last.pid

IsLive(i) == StateOf(i) # PROC_FREE

\* C5: a new PID is the old next_pid and next_pid only grows, so each PID
\* issued exceeds all issued before; live slots hold distinct PIDs in
\* 1 .. next_pid - 1, never 0.
C5_PidsFreshAndUnique ==
    /\ [](\A i \in Slots :
             IsLive(i) =>
                /\ proc_table[i].pid > 0
                /\ proc_table[i].pid < next_pid
                /\ \A j \in Slots :
                      IsLive(j) /\ j # i => proc_table[j].pid # proc_table[i].pid)
    /\ [][ctl # "boot" =>
             /\ next_pid' >= next_pid
             /\ \A i \in Slots :
                   proc_table'[i].pid # proc_table[i].pid /\ proc_table'[i].pid # 0 =>
                      /\ proc_table'[i].pid = next_pid
                      /\ next_pid' > next_pid]_vars

\* C5 witness: a slot that held one PID, was reclaimed, and now holds a
\* later one (slot 1 first receives PID 2 in every set-up).
C5_Witness ==
    /\ IsLive(1)
    /\ proc_table[1].pid > 2
    /\ last.op = "cmd_run"

Permitted ==
    {<<PROC_FREE, PROC_READY>>, <<PROC_READY, PROC_RUNNING>>,
     <<PROC_RUNNING, PROC_READY>>, <<PROC_RUNNING, PROC_BLOCKED_SEM>>,
     <<PROC_BLOCKED_SEM, PROC_READY>>, <<PROC_RUNNING, PROC_ZOMBIE>>,
     <<PROC_ZOMBIE, PROC_FREE>>}

\* C6: every change of a PCB's state is one of the seven permitted
\* transitions, and no PCB is ever in state SLEEP.
C6_OnlyPermittedTransitions ==
    /\ [](\A i \in Slots : StateOf(i) # PROC_SLEEP)
    /\ [][\A i \in Slots :
             proc_table'[i].state # proc_table[i].state =>
                <<proc_table[i].state, proc_table'[i].state>> \in Permitted]_vars

\* C6 witness: the last of the lifecycle's transitions, ZOMBIE -> FREE, has
\* been taken while another process, which went RUNNING -> BLOCKED_SEM, waits
\* on a semaphore.
C6_Witness ==
    /\ last.op = "hook"
    /\ last.ret = 1
    /\ \E i \in Slots : StateOf(i) = PROC_BLOCKED_SEM

\* the slot of the process named by current
CurIdx == IdxOf(pid_to_proc(proc_table, current))

\* C7: when the entry of the dispatched task returns, the task becomes
\* ZOMBIE, and the return hook that follows leaves its slot FREE.
C7_ReturnIsExit ==
    [][/\ (last'.op = "return" /\ current > 0) =>
             proc_table'[CurIdx].state = PROC_ZOMBIE
       /\ (ctl = "hook" /\ last.op = "return" /\ current > 0) =>
             proc_table'[CurIdx].state = PROC_FREE]_vars

\* C8: SYSCALL_EXIT marks the running task ZOMBIE and sends control to the
\* return hook; when the hook has run the slot is FREE with pid 0, entry,
\* name, stack, stack_top and next_blocked null, stack_size 0,
\* blocked_sem_id -1, and current is -1.
C8_ExitReclaimsSlot ==
    [][/\ (last'.op = "exit" /\ current > 0) =>
             /\ proc_table'[CurIdx].state = PROC_ZOMBIE
             /\ ctl' = "hook"
       /\ (ctl = "hook" /\ last.op = "exit" /\ current > 0) =>
             /\ proc_table'[CurIdx].state = PROC_FREE
             /\ proc_table'[CurIdx].pid = 0
             /\ proc_table'[CurIdx].entry = NullFn
             /\ proc_table'[CurIdx].name = NULL
             /\ proc_table'[CurIdx].stack = NULL
             /\ proc_table'[CurIdx].stack_top = NULL
             /\ proc_table'[CurIdx].next_blocked = NULL
             /\ proc_table'[CurIdx].stack_size = 0
             /\ proc_table'[CurIdx].blocked_sem_id = -1
             /\ current' = -1]_vars

\* C8 witness: the hook has just reclaimed a task that exited.
C8_Witness ==
    /\ last.op = "hook"
    /\ last.ret = 1
    /\ last.pid > 0
    /\ pid_to_proc(proc_table, last.pid) = NULL
    /\ current = -1

YieldExpected == <<"A", "A", "yield", "B", "B", "yield", "A", "exit", "B", "exit">>

\* C9: with A and B created in that order, the events are a prefix of
\* A A (yield) B B (yield) A (exit) B (exit), and once the scheduler has
\* nothing left to run all of them have happened and both slots are FREE.
C9_YieldLoopOrder ==
    scenario = "yield" =>
        /\ IsPrefix(trace, YieldExpected)
        /\ (ctl = "loop" /\ find_next_ready(proc_table, start_idx) = NULL) =>
              /\ trace = YieldExpected
              /\ StateOf(0) = PROC_FREE
              /\ StateOf(1) = PROC_FREE

\* C10: in the mutex scenario the output never holds "xx" or "yy", and once
\* the scheduler has nothing left to run it holds "xy" twice and both tasks
\* have exited.
C10_MutualExclusion ==
    scenario = "mutex" =>
        /\ Pairs(out, "x", "x") = 0
        /\ Pairs(out, "y", "y") = 0
        /\ (ctl = "loop" /\ find_next_ready(proc_table, start_idx) = NULL) =>
              /\ Pairs(out, "x", "y") = 2
              /\ StateOf(0) = PROC_FREE
              /\ StateOf(1) = PROC_FREE

\* C11: in the producer/consumer scenario the consumer consumes only after
\* the producer produced, and once the scheduler has nothing left to run
\* both have acted once and both slots are FREE.
C11_ProducerConsumer ==
    scenario = "prodcons" =>
        /\ IsPrefix(out, <<"p", "c">>)
        /\ (ctl = "loop" /\ find_next_ready(proc_table, start_idx) = NULL) =>
              /\ out = <<"p", "c">>
              /\ StateOf(0) = PROC_FREE
              /\ StateOf(1) = PROC_FREE

\* the tables after n calls of sem_wait(sem_id) by cur, and whether the last
\* of them jumped to the scheduler
RECURSIVE AfterWaits(_, _, _, _, _)
AfterWaits(pt, st, cur, sem_id, n) ==
    IF n = 0 THEN [pt |-> pt, st |-> st, jumped |-> FALSE]
    ELSE LET r == AfterWaits(pt, st, cur, sem_id, n - 1)
         IN  sem_wait(r.pt, r.st, cur, sem_id)

\* C12: wherever a task runs and a semaphore slot is free, for every k in
\* 0 .. MaxValue + 1, after sem_create(k) waits 1 .. k return without
\* blocking and leave the process table as it was (caller RUNNING), and
\* wait k + 1 sets the caller BLOCKED_SEM and jumps to the scheduler; and in
\* every step that is a sem_wait on a live semaphore the caller goes on,
\* RUNNING, when the value was >= 1 and is BLOCKED_SEM with control at the
\* return hook when it was 0.
C12_WaitBlocksAfterK ==
    /\ []((ctl = "task" /\ current > 0 /\ find_free_sem_slot(sem_table) # -1) =>
            \A k \in 0 .. (MaxValue + 1) :
               LET c == sem_create(sem_table, next_sem_id, current, k)
               IN  \A j \in 1 .. (k + 1) :
                      LET r == AfterWaits(proc_table, c.st, current, c.ret, j)
                      IN  IF j <= k
                          THEN /\ ~r.jumped
                               /\ r.pt = proc_table
                               /\ r.st[sem_get(r.st, c.ret)].value = k - j
                          ELSE /\ r.jumped
                               /\ r.pt[CurIdx].state = PROC_BLOCKED_SEM
                               /\ r.pt[CurIdx].blocked_sem_id = c.ret)
    /\ [][(last'.op = "sem_wait" /\ sem_get(sem_table, last'.arg) # -1) =>
             IF ValueOf(last'.arg) >= 1
             THEN /\ ctl' = "task"
                  /\ current' = current
                  /\ proc_table' = proc_table
             ELSE ValueOf(last'.arg) = 0 =>
                  /\ ctl' = "hook"
                  /\ proc_table'[CurIdx].state = PROC_BLOCKED_SEM]_vars

\* C12 witness: on the semaphore made by sem_create(1) a first sem_wait
\* returned (x was printed after it) and the second has just blocked.
C12_Witness ==
    /\ scenario = "mutex"
    /\ out = <<"x">>
    /\ last.op = "sem_wait"
    /\ last.ret = 1
    /\ ctl = "hook"

\* the PCBs reached from pointer p along next_blocked in process table pt
RECURSIVE ChainIn(_, _, _)
ChainIn(pt, p, n) ==
    IF p = NULL \/ n = 0 THEN <<>>
    ELSE <<p>> \o ChainIn(pt, pt[IdxOf(p)].next_blocked, n - 1)

\* the slots that the step takes from BLOCKED_SEM to READY
Woken ==
    {i \in Slots : /\ proc_table[i].state = PROC_BLOCKED_SEM
                   /\ proc_table'[i].state = PROC_READY}

\* C13: a sem_signal step on a semaphore with n >= 1 waiters takes exactly
\* one of them, which was on its list, to READY with blocked_sem_id -1 and
\* no list link, leaves every other PCB as it was and n - 1 waiters, all
\* BLOCKED_SEM, on the list; the caller goes on: control stays in the task,
\* current is unchanged and the caller is RUNNING.
C13_SignalWakesOne ==
    [][\A s \in SemSlots :
          (/\ last'.op = "sem_signal"
           /\ s = sem_get(sem_table, last'.arg)
           /\ BlockedList(s) # <<>>) =>
              LET rest == ChainIn(proc_table', sem_table'[s].blocked_list,
                                  MAX_PROCS + 1)
              IN  /\ Cardinality(Woken) = 1
                  /\ \A i \in Woken :
                        /\ OnList(i, s)
                        /\ proc_table'[i].blocked_sem_id = -1
                        /\ proc_table'[i].next_blocked = NULL
                  /\ \A i \in Slots \ Woken : proc_table'[i] = proc_table[i]
                  /\ Len(rest) = Len(BlockedList(s)) - 1
                  /\ \A j \in 1 .. Len(rest) :
                        /\ proc_table'[IdxOf(rest[j])].state = PROC_BLOCKED_SEM
                        /\ OnList(IdxOf(rest[j]), s)
                  /\ ctl' = "task"
                  /\ current' = current
                  /\ proc_table'[CurIdx].state = PROC_RUNNING]_vars

\* C13 witness: the signaller has just signalled the semaphore on which two
\* tasks waited; one of them is READY, the other still BLOCKED_SEM and on
\* the list, and the signaller is still the running task.
C13_Witness ==
    /\ scenario = "waiters"
    /\ last.op = "sem_signal"
    /\ ctl = "task"
    /\ current = proc_table[2].pid
    /\ StateOf(2) = PROC_RUNNING
    /\ Cardinality({i \in Slots : StateOf(i) = PROC_READY}) = 1
    /\ \E i \in Slots : StateOf(i) = PROC_BLOCKED_SEM /\ OnList(i, 0)

\* C14: after an ecall with an unknown a7 the same task goes on: control stays
\* in the task, past the ecall, with current and the task's state unchanged.
C14_UnknownSyscallContinues ==
    [][last'.op = "unknown" =>
          /\ ctl' = "task"
          /\ current' = current
          /\ proc_table' = proc_table]_vars

\* the step is a suspension the specification allows: the entry returned, or
\* the task issued EXIT, YIELD or a SEM_WAIT that blocked
AllowedSuspension ==
    \/ last'.op \in {"return", "exit", "yield"}
    \/ last'.op = "sem_wait" /\ last'.ret = 1

\* C15: control leaves the running task for the scheduler only by a return
\* from entry, EXIT, YIELD or a blocking SEM_WAIT; SEM_CREATE, SEM_SIGNAL,
\* SEM_DESTROY and a SEM_WAIT that does not block go back to the same task,
\* which stays RUNNING, with current unchanged.
C15_OnlySuspensionPoints ==
    [][/\ (ctl = "task" /\ ctl' \in {"hook", "loop", "shell"}) => AllowedSuspension
       /\ (\/ last'.op \in {"sem_create", "sem_signal", "sem_destroy"}
           \/ last'.op = "sem_wait" /\ last'.ret = 0) =>
              /\ ctl' = "task"
              /\ current' = current
              /\ proc_table'[CurIdx].state = PROC_RUNNING]_vars

\* C16: a trap with mcause 2 leaves control in the dispatcher's
\* wait-for-interrupt loop with the process and semaphore tables unchanged,
\* and from that loop no step is ever taken.
C16_FatalTrapHalts ==
    [][/\ FatalTrap => /\ ctl' = "fatal"
                       /\ proc_table' = proc_table
                       /\ sem_table' = sem_table
                       /\ next_pid' = next_pid
                       /\ next_sem_id' = next_sem_id
       /\ ctl # "fatal"]_vars

\* C16 witness: the dispatcher spins after a fatal trap while another task
\* is READY and never gets the processor.
C16_Witness ==
    /\ ctl = "fatal"
    /\ last.op = "fatal"
    /\ \E i \in Slots : StateOf(i) = PROC_READY

\* C17: if control always comes back to the scheduler loop (every dispatched
\* task yields, blocks or exits in the end), every slot that is READY is
\* dispatched in the end.
C17_NoStarvation ==
    []<>(ctl = "loop") =>
        \A i \in Slots :
            (StateOf(i) = PROC_READY) ~>
                (StateOf(i) = PROC_RUNNING /\ current = proc_table[i].pid)

\* C17 witness: B has been dispatched after waiting READY while A ran and
\* yielded, and A is READY in its turn.
C17_Witness ==
    /\ scenario = "yield"
    /\ last.op = "run_process"
    /\ StateOf(1) = PROC_RUNNING
    /\ current = proc_table[1].pid
    /\ StateOf(0) = PROC_READY

\* C18: kmalloc(size) returns null exactly when size is 0 or heap_ptr plus
\* the size rounded up to 16 exceeds heap_limit; a request that fills the
\* heap exactly succeeds.
C18_NullOnlyBeyondLimit ==
    [][last'.op = "kmalloc" =>
          ((last'.ret = NULL) <=>
              (last'.arg = 0 \/ heap_ptr + Align16(last'.arg) > heap_limit))]_vars

\* C19: every region returned starts on a 16-byte boundary, lies within
\* [heap start, heap_limit) and overlaps no region returned before; a call
\* that returns null leaves heap_ptr as it was.
C19_RegionsAlignedDisjoint ==
    /\ [](\A a \in 1 .. Len(allocs) :
             /\ allocs[a].base % 16 = 0
             /\ allocs[a].base >= KernelHeapStart
             /\ allocs[a].base + allocs[a].size <= heap_limit
             /\ allocs[a].base + allocs[a].size <= heap_ptr
             /\ \A b \in 1 .. (a - 1) :
                   allocs[b].base + allocs[b].size <= allocs[a].base)
    /\ [][(last'.op = "kmalloc" /\ last'.ret = NULL) =>
             heap_ptr' = heap_ptr /\ allocs' = allocs]_vars

\* C19 witness: two regions of sizes that are no multiples of 16 have been
\* returned and a third request has just been refused.
C19_Witness ==
    /\ Len(allocs) = 2
    /\ allocs[1].size = 1
    /\ allocs[2].size = 17
    /\ last.op = "kmalloc"
    /\ last.arg = 32
    /\ last.ret = NULL

\* C20: a create_process_from_binary call that fails returns a negative value
\* and leaves the process table, the PID counter and the heap pointer exactly
\* as they were before the call.
C20_FailedCreateMutatesNothing ==
    [][(last'.op = "cmd_run" /\ last'.ret <= 0) =>
          /\ last'.ret < 0
          /\ proc_table' = proc_table
          /\ next_pid' = next_pid
          /\ heap_ptr' = heap_ptr]_vars

-----------------------------------------------------------------------------
(* Properties of the filesystem *)

\* whether the filesystem call recorded in l reported failure
Failed(l) ==
    IF l.op \in {"rmdir", "rm", "mv"} THEN l.ret = FALSE
    ELSE IF l.op \in {"mkdir_recursive", "touch"} THEN l.ret = NULL
    ELSE FALSE

\* the in-use flags of both pools and every directory's child lists
PoolShape(F) ==
    [dir_used |-> [d \in DirPtrs |-> F.dirs[d].used],
     subdirs |-> [d \in DirPtrs |-> F.dirs[d].subdirs],
     files |-> [d \in DirPtrs |-> F.dirs[d].files],
     file_used |-> [f \in FilePtrs |-> F.files[f].used]]

\* C22: whenever mkdir, mkdir_recursive, rmdir, touch, touch_recursive, rm or
\* mv reports failure, every pool in-use flag and every directory's
\* subdirectory list, file list and counts are as they were before the call.
C22_FailureChangesNothing ==
    [][Failed(last') => PoolShape(fat') = PoolShape(fat)]_vars

\* position of the first entry of list l of F whose file is called name
\* (0 if there is none)
FilePos(F, l, name) ==
    LET m == {i \in 1 .. Len(l) : FileName(F.files[l[i]]) = name}
    IN  IF m = {} THEN 0 ELSE MinOf(m)

\* what mv must do to the two lists when it succeeds
MovedLists(F, src, name, dst) ==
    LET f == find_file(F, src, name)
        cut == [F.dirs EXCEPT ![src].files =
                  RemoveAt(@, FilePos(F, F.dirs[src].files, name))]
    IN  [d \in DirPtrs |-> IF d = dst THEN Append(cut[d].files, f)
                           ELSE cut[d].files]

\* C23: mv(src, name, dst) succeeds exactly if the file exists in src and
\* dst has room; it then removes the reference from src's list, the rest
\* keeping their order, and appends it to dst's list, and the file stays an
\* in-use pool entry with its name, data and size unchanged. Otherwise it
\* returns false and no list changes.
C23_MvAtomic ==
    [][last'.op = "mv" =>
          LET src == last'.pid
              name == last'.arg
              dst == last'.dest
              f == find_file(fat, src, name)
          IN  /\ last'.ret <=> (f # NULL /\ Len(fat.dirs[dst].files) < MAX_FILES)
              /\ last'.ret =>
                    /\ \A d \in DirPtrs :
                          fat'.dirs[d].files = MovedLists(fat, src, name, dst)[d]
                    /\ fat'.files[f] = fat.files[f]
                    /\ fat'.files[f].used
              /\ ~last'.ret =>
                    \A d \in DirPtrs : fat'.dirs[d].files = fat.dirs[d].files]_vars

\* whether the string s holds no '/'
NoSlash(s) == \A i \in 1 .. Len(s) : s[i] # CH_SLASH

\* C24: touch and mkdir accept an otherwise valid, non-duplicate name of
\* MAX_NAME_LEN - 1 bytes and reject, with null and no change of state, any
\* name of MAX_NAME_LEN bytes or more, so that no stored name exceeds the
\* name field.
C24_NameLengthBoundary ==
    [][(last'.op \in {"touch", "mkdir_recursive"} /\ NoSlash(last'.arg)) =>
          LET dir == last'.pid
              name == last'.arg
              dup == IF last'.op = "touch" THEN find_file(fat, dir, name)
                     ELSE NULL
              room == IF last'.op = "touch"
                      THEN /\ Len(fat.dirs[dir].files) < MAX_FILES
                           /\ \E f \in FilePtrs : ~fat.files[f].used
                      ELSE \/ find_subdir(fat, dir, name) # NULL
                           \/ /\ Len(fat.dirs[dir].subdirs) < MAX_DIRS
                              /\ \E d \in PoolDirs : ~fat.dirs[d].used
          IN  /\ Len(name) >= MAX_NAME_LEN => (last'.ret = NULL /\ fat' = fat)
              /\ (Len(name) = MAX_NAME_LEN - 1 /\ ~is_name_invalid(name)
                    /\ dup = NULL /\ room) => last'.ret # NULL
              /\ \A f \in FilePtrs :
                    fat'.files[f].used => Len(fat'.files[f].name) < MAX_NAME_LEN
              /\ \A d \in PoolDirs :
                    fat'.dirs[d].used => Len(fat'.dirs[d].name) < MAX_NAME_LEN]_vars

\* the list l without the entry at position i, the others in their order
Without(l, i) == [k \in 1 .. (Len(l) - 1) |-> IF k < i THEN l[k] ELSE l[k + 1]]

\* position of the first subdirectory of dir called name (0 if none)
SubdirPos(F, dir, name) ==
    LET l == F.dirs[dir].subdirs
        m == {i \in 1 .. Len(l) : F.dirs[l[i]].name = name}
    IN  IF m = {} THEN 0 ELSE MinOf(m)

\* C25: rmdir(parent, name) removes the named child exactly if it exists in
\* parent and has no subdirectories and no files. On success the target's
\* pool entry is free and a later mkdir can be served, parent's count drops
\* by one and the remaining children keep their order; rm does the same for
\* files. A refused rmdir or rm changes nothing.
C25_RmdirRemovesEmptyOnly ==
    [][/\ last'.op = "rmdir" =>
             LET dir == last'.pid
                 name == last'.arg
                 t == find_subdir(fat, dir, name)
                 empty == /\ Len(fat.dirs[t].subdirs) = 0
                          /\ Len(fat.dirs[t].files) = 0
             IN  /\ last'.ret <=> (t # NULL /\ empty)
                 /\ last'.ret =>
                       /\ t \in PoolDirs
                       /\ ~fat'.dirs[t].used
                       /\ fat'.dirs[dir].subdirs =
                             Without(fat.dirs[dir].subdirs,
                                     SubdirPos(fat, dir, name))
                       /\ \A d \in DirPtrs \ {t} :
                             /\ fat'.dirs[d].used = fat.dirs[d].used
                             /\ d # dir => fat'.dirs[d] = fat.dirs[d]
                       /\ fat'.files = fat.files
                       /\ find_subdir(fat', dir, name) = NULL =>
                             mkdir(fat', dir, name).ret # NULL
                 /\ ~last'.ret => fat' = fat
       /\ last'.op = "rm" =>
             LET dir == last'.pid
                 name == last'.arg
                 f == find_file(fat, dir, name)
             IN  /\ last'.ret <=> f # NULL
                 /\ last'.ret =>
                       /\ ~fat'.files[f].used
                       /\ fat'.dirs[dir].files =
                             Without(fat.dirs[dir].files,
                                     FilePos(fat, fat.dirs[dir].files, name))
                       /\ \A g \in FilePtrs \ {f} : fat'.files[g] = fat.files[g]
                       /\ \A d \in DirPtrs \ {dir} : fat'.dirs[d] = fat.dirs[d]
                       /\ find_file(fat', dir, name) = NULL =>
                             touch(fat', dir, name).ret # NULL
                 /\ ~last'.ret => fat' = fat]_vars

\* C25 witness: the root had three subdirectories and rmdir has just removed
\* the first of them; the other two are still listed in their order and
\* the first pool entry is free.
C25_Witness ==
    /\ last.op = "rmdir"
    /\ last.ret = TRUE
    /\ last.pid = RootDir
    /\ fat.dirs[RootDir].subdirs = <<2, 3>>
    /\ ~fat.dirs[1].used

\* C26: a successful mkdir(p, n) immediately followed by rmdir(p, n): the
\* rmdir succeeds and the number of free directory-pool entries, p's
\* subdirectory list and count and all other directories' lists are as they
\* were before the mkdir.
C26_MkdirRmdirRoundTrip ==
    [][(last'.op = "mkdir_recursive" /\ NoSlash(last'.arg) /\ last'.dest = 1) =>
          LET r == rmdir(fat', last'.pid, last'.arg)
          IN  /\ r.ret
              /\ UsedCount(r.fat) = UsedCount(fat)
              /\ \A d \in DirPtrs :
                    /\ r.fat.dirs[d].used = fat.dirs[d].used
                    /\ r.fat.dirs[d].subdirs = fat.dirs[d].subdirs
                    /\ r.fat.dirs[d].files = fat.dirs[d].files]_vars

\* C26 witness: mkdir has just created a directory in a directory other
\* than the root, next to an older sibling, while a pool entry with a lower
\* index is free again.
C26_Witness ==
    /\ last.op = "mkdir_recursive"
    /\ NoSlash(last.arg)
    /\ last.dest = 1
    /\ last.pid # RootDir
    /\ Len(fat.dirs[last.pid].subdirs) = 2
    /\ fat.dirs[last.pid].subdirs[2] = last.ret
    /\ \E d \in PoolDirs : d > last.ret /\ fat.dirs[d].used

\* C27: in a filesystem that only ever held files in the root directory, a
\* touch with a fresh valid name succeeds while fewer than MAX_FILES files
\* exist, so the first MAX_FILES touches succeed and a touch after an rm
\* succeeds; it returns a file of size 0 that is in use and listed last. With
\* MAX_FILES files present the touch returns null and changes nothing.
C27_FilePoolExhaustion ==
    [][(/\ last'.op = "touch"
        /\ ~is_name_invalid(last'.arg)
        /\ find_file(fat, RootDir, last'.arg) = NULL) =>
          LET n == Len(fat.dirs[RootDir].files)
              f == last'.ret
          IN  /\ n = Cardinality({i \in FilePtrs : fat.files[i].used})
              /\ n < MAX_FILES =>
                    /\ f # NULL
                    /\ fat'.files[f].used
                    /\ fat'.files[f].size = 0
                    /\ FileName(fat'.files[f]) = last'.arg
                    /\ fat'.dirs[RootDir].files = Append(fat.dirs[RootDir].files, f)
              /\ n >= MAX_FILES => f = NULL /\ fat' = fat]_vars

\* C27 witness: the pool is full again, and the file created last lives in a
\* pool entry that an rm had freed after the pool had been full.
C27_Witness ==
    /\ last.op = "touch"
    /\ last.ret # NULL
    /\ Len(fat.dirs[RootDir].files) = MAX_FILES
    /\ fat.dirs[RootDir].files[MAX_FILES] = last.ret
    /\ last.ret < MAX_FILES
    /\ fat.files[last.ret].size = 0

\* following parent links from d reaches the root within k steps
RECURSIVE ReachesRoot(_, _, _)
ReachesRoot(F, d, k) ==
    IF d = RootDir THEN TRUE
    ELSE IF d = NULL \/ k = 0 THEN FALSE
    ELSE ReachesRoot(F, F.dirs[d].parent, k - 1)

\* C28: for every in-use directory D, D is not its own parent, the parent
\* links from D lead to the root, whose parent is null, without repeating a
\* directory, and every directory in D's subdirectory list is in use and has
\* D as its parent.
C28_ParentLinks ==
    /\ fat.dirs[RootDir].parent = NULL
    /\ \A D \in UsedDirs :
          /\ fat.dirs[D].parent # D
          /\ ReachesRoot(fat, D, MAX_DIRS)
          /\ \A i \in DOMAIN fat.dirs[D].subdirs :
                /\ fat.dirs[fat.dirs[D].subdirs[i]].parent = D
                /\ fat.dirs[fat.dirs[D].subdirs[i]].used

\* C28 witness: a chain of three nested directories below the root, the
\* innermost one in a pool entry with a lower index than its parent's (an
\* entry freed by rmdir and claimed again).
C28_Witness ==
    \E a, b, c \in PoolDirs :
        /\ fat.dirs[RootDir].subdirs = <<a>>
        /\ fat.dirs[a].subdirs = <<b>>
        /\ fat.dirs[b].subdirs = <<c>>
        /\ fat.dirs[c].used
        /\ c < b

\* the segments of a path: the pieces between its '/' characters
RECURSIVE Split(_)
Split(path) ==
    LET z == {i \in 1 .. Len(path) : path[i] = CH_SLASH}
    IN  IF z = {} THEN <<path>>
        ELSE <<SubSeq(path, 1, MinOf(z) - 1)>>
                \o Split(SubSeq(path, MinOf(z) + 1, Len(path)))

\* whether some segment in the positions idx of the path is empty or too long
BadSegment(path, idx) ==
    \E k \in idx : Len(Split(path)[k]) = 0 \/ Len(Split(path)[k]) >= MAX_NAME_LEN

\* C29: mkdir_recursive returns null whenever a segment of the path (the
\* last one, after a trailing slash, included) is empty or has MAX_NAME_LEN
\* bytes or more; when it returns a directory, that directory is the one the
\* path names from start, and a second call with the same path returns the
\* same directory and changes nothing.
C29_MkdirRecursive ==
    [][last'.op = "mkdir_recursive" =>
          LET start == last'.pid
              path == last'.arg
          IN  /\ BadSegment(path, 1 .. Len(Split(path))) => last'.ret = NULL
              /\ last'.ret # NULL =>
                    /\ fat'.dirs[last'.ret].used
                    /\ mkdir_recursive(fat', start, path)
                          = [fat |-> fat', ret |-> last'.ret]]_vars

\* the content of a file: its first size bytes
Content(file) == [i \in 1 .. file.size |-> file.data[i - 1]]

\* C30: an edit of a file with room for the bytes typed leaves the file
\* holding as many bytes as were typed, and cat of a file emits exactly the
\* file's content, size bytes and none past the end, followed by exactly one
\* newline.
C30_CatEmitsContent ==
    [][/\ (last'.op = "edit" /\ last'.dest # NULL) =>
             fat'.files[last'.dest].size = MinOf({Len(last'.bytes), MAX_FILE_SIZE})
       /\ (last'.op = "cat" /\ last'.dest # NULL) =>
             last'.bytes = Content(fat.files[last'.dest]) \o <<CH_LF>>]_vars

-----------------------------------------------------------------------------
(* The scheduler with three tasks contending for one semaphore *)

\* sid = sem_create(0), then three tasks of arbitrary behaviour; the
\* scheduler loop starts
InitLifo ==
    LET s == sem_create(InitSemTable, 1, -1, 0)
    IN  /\ Common(CreateAll(AfterInit,
                            [j \in 1 .. 3 |->
                               [fn |-> "task", size |-> DEFAULT_STACK_SIZE]]),
                  s.st, s.nsid, "lifo")
        /\ ctl = "loop"

\* the scheduler, the return hook and what the tasks do with the semaphore
NextLifo ==
    \/ scheduler_loop
    \/ scheduler_process_return
    \/ SyscallExit
    \/ SyscallYield
    \/ SyscallSemWait
    \/ SyscallSemSignal
    \/ SyscallSemDestroy
    \/ SyscallUnknown
    \/ FatalTrap
    \/ EntryReturn

SpecLifo == InitLifo /\ [][NextLifo]_vars

\* the hart never stops: the loop of scheduler_main iterates, the hook runs
\* to its end and a dispatched task executes its next instruction
FairLifo == SpecLifo /\ WF_vars(NextLifo)

-----------------------------------------------------------------------------
(* Further properties of the scheduler *)

\* the offsets from start_idx, in scan order, of the slots that are READY or
\* RUNNING
Candidates ==
    {o \in 0 .. (MAX_PROCS - 1) :
        StateOf((start_idx + o) % MAX_PROCS) \in {PROC_READY, PROC_RUNNING}}

\* C31: the scan starts at index 0 initially and afterwards one past the
\* slot the loop dispatched last (only a dispatch moves the starting index);
\* each pass of the loop dispatches the first slot in cyclic order from there
\* that is READY or RUNNING, never a slot in another state, and when no slot
\* qualifies it dispatches nothing and stays in the loop.
C31_RoundRobinSelection ==
    /\ start_idx = 0
    /\ [][/\ ctl # "loop" => start_idx' = start_idx
          /\ (ctl = "loop" /\ Candidates = {}) =>
                /\ last'.op = "wfi"
                /\ ctl' = "loop"
                /\ UNCHANGED <<proc_table, current, start_idx>>
          /\ (ctl = "loop" /\ Candidates # {}) =>
                LET i == (start_idx + MinOf(Candidates)) % MAX_PROCS
                IN  /\ last'.op = "run_process"
                    /\ last'.arg = i
                    /\ current' = proc_table[i].pid
                    /\ proc_table' = [proc_table EXCEPT ![i].state = PROC_RUNNING]
                    /\ ctl' \in {"task", "shell"}
                    /\ start_idx' = (i + 1) % MAX_PROCS]_vars

\* C31 witness: the scan began at slot 0 after slot 2 had been dispatched and
\* reclaimed, passed over slot 0, which is blocked, and dispatched slot 1.
C31_Witness ==
    /\ last.op = "run_process"
    /\ ctl = "task"
    /\ last.arg = 1
    /\ start_idx = 2
    /\ StateOf(0) = PROC_BLOCKED_SEM
    /\ StateOf(2) = PROC_FREE
    /\ scenario = "waiters"

\* slot i is BLOCKED_SEM and on the blocked list of no in-use semaphore
Dropped(i) ==
    /\ StateOf(i) = PROC_BLOCKED_SEM
    /\ \A s \in SemSlots : InUse(s) => ~OnList(i, s)

\* C32: sem_destroy of an in-use semaphore with waiters reports success and
\* leaves every waiter BLOCKED_SEM and on no list; from then on no step
\* changes such a waiter's PCB, dispatches it or puts it on the list of an
\* in-use semaphore, and neither would a sem_create issued next; so it stays
\* BLOCKED_SEM forever.
C32_DestroyDropsWaiters ==
    [][/\ \A s \in SemSlots :
             (/\ ctl = "task"
              /\ last'.op = "sem_destroy"
              /\ InUse(s)
              /\ sem_table[s].id = last'.arg
              /\ BlockedList(s) # <<>>) =>
                 /\ last'.ret = 0
                 /\ ~sem_table'[s].in_use
                 /\ \A i \in Slots :
                       OnList(i, s) =>
                          Dropped(i)' /\ proc_table'[i] = proc_table[i]
       /\ \A i \in Slots :
             Dropped(i) =>
                 /\ Dropped(i)'
                 /\ proc_table'[i] = proc_table[i]
                 /\ current' # proc_table[i].pid
                 /\ \A v \in -1 .. MaxValue :
                       LET r == sem_create(sem_table', next_sem_id', current', v)
                       IN  \A s \in SemSlots :
                              r.st[s].in_use =>
                                 \A j \in DOMAIN ChainIn(proc_table', r.st[s].blocked_list,
                                                          MAX_PROCS) :
                                    ChainIn(proc_table', r.st[s].blocked_list,
                                            MAX_PROCS)[j] # PtrOf(i)]_vars

\* C32 witness: a task blocked on a destroyed semaphore is still BLOCKED_SEM
\* right after another task signalled the id that semaphore had.
C32_Witness ==
    \E i \in Slots :
        /\ Dropped(i)
        /\ last.op = "sem_signal"
        /\ last.arg = proc_table[i].blocked_sem_id
        /\ last.pid # proc_table[i].pid

\* C33: a sem_wait that blocks puts the caller at the head of the
\* semaphore's list, in front of the tasks already waiting, and a sem_signal
\* on a semaphore with waiters removes the head and makes it READY: the
\* task woken is the one that blocked most recently.
C33_WaitListLifo ==
    [][\A s \in SemSlots :
          (ctl = "task" /\ InUse(s) /\ sem_table[s].id = last'.arg) =>
             /\ (last'.op = "sem_wait" /\ last'.ret = 1) =>
                   /\ BlockedList(s)' = <<pid_to_proc(proc_table, current)>>
                                           \o BlockedList(s)
                   /\ proc_table'[CurIdx].state = PROC_BLOCKED_SEM
             /\ (last'.op = "sem_signal" /\ sem_table[s].value < 0
                   /\ BlockedList(s) # <<>>) =>
                   /\ BlockedList(s)' = Tail(BlockedList(s))
                   /\ proc_table'[IdxOf(Head(BlockedList(s)))].state = PROC_READY
                   /\ \A i \in Slots :
                         i # IdxOf(Head(BlockedList(s))) =>
                            proc_table'[i] = proc_table[i]]_vars

\* C33 witness: a task has just blocked and stands at the head of the list,
\* in front of a task that has been waiting longer.
C33_Witness ==
    \E s \in SemSlots :
        /\ InUse(s)
        /\ last.op = "sem_wait"
        /\ last.ret = 1
        /\ sem_table[s].id = last.arg
        /\ Len(BlockedList(s)) = 2
        /\ proc_table[IdxOf(BlockedList(s)[1])].pid = last.pid
        /\ proc_table[IdxOf(BlockedList(s)[2])].pid # last.pid

\* the fairness-dependent half of C33 is that the following fails: whenever
\* the semaphore a task waits on is signalled again and again, the task does
\* not stay on its list for ever
WaitersServed ==
    \A i \in Slots :
        []<>(last.op = "sem_signal" /\ last.arg = proc_table[i].blocked_sem_id)
            => ~<>[](StateOf(i) = PROC_BLOCKED_SEM
                        /\ \E s \in SemSlots : InUse(s) /\ OnList(i, s))

\* the pids, from -1 up, that no slot of the table carries, or that are not
\* positive
NoSlotPids(pt) ==
    {pid \in -1 .. (MAX_PROCS + 2) :
        pid <= 0 \/ \A i \in Slots : pt[i].pid # pid}

\* C34: a sem_wait, sem_signal or sem_destroy whose id is that of no in-use
\* semaphore (0 and the ids of destroyed semaphores included) changes
\* neither table and leaves the caller executing, RUNNING and current;
\* sem_destroy then reports -1. terminate_process with a pid that no slot
\* carries, or that is not positive, leaves the process table as it is.
C34_NotFoundNoSideEffect ==
    [][/\ (/\ ctl = "task"
           /\ last'.op \in {"sem_wait", "sem_signal", "sem_destroy"}
           /\ \A s \in SemSlots : ~(InUse(s) /\ sem_table[s].id = last'.arg)) =>
              /\ UNCHANGED <<proc_table, sem_table, next_sem_id, current>>
              /\ ctl' = "task"
              /\ StateOf(CurIdx) = PROC_RUNNING
              /\ last'.op = "sem_destroy" => last'.ret = -1
              /\ last'.op = "sem_wait" => last'.ret = 0
       /\ \A pid \in NoSlotPids(proc_table') :
             terminate_process(proc_table', pid) = proc_table']_vars

\* C34 witness: a task has called sem_wait with the id of a semaphore that
\* was created and destroyed, and goes on executing.
C34_Witness ==
    /\ last.op = "sem_wait"
    /\ last.ret = 0
    /\ ctl = "task"
    /\ last.arg >= 1
    /\ last.arg < next_sem_id
    /\ \A s \in SemSlots : ~(InUse(s) /\ sem_table[s].id = last.arg)
    /\ \E i \in Slots : StateOf(i) = PROC_READY

\* the slots in state ZOMBIE
Zombies == {i \in Slots : StateOf(i) = PROC_ZOMBIE}

\* C37: whenever the scheduler loop is about to select, no slot is ZOMBIE; a
\* slot is ZOMBIE only between the exit that made it so and the return hook
\* that follows, and that run of the hook leaves it FREE.
C37_NoLingeringZombies ==
    /\ [](ctl # "hook" => Zombies = {})
    /\ [][/\ Zombies' # {} => (last'.op = "exit" /\ ctl' = "hook")
          /\ \A i \in Zombies :
                /\ last'.op = "hook"
                /\ proc_table'[i].state = PROC_FREE]_vars

\* C37 witness: the hook has just reclaimed a task that exited, control is
\* back in the loop and another task is still blocked.
C37_Witness ==
    /\ ctl = "loop"
    /\ last.op = "hook"
    /\ last.ret = 1
    /\ Zombies = {}
    /\ \E i \in Slots : StateOf(i) = PROC_BLOCKED_SEM
    /\ \E i \in Slots : StateOf(i) = PROC_FREE

\* the slots holding the process whose entry is shell_main
ShellSlots ==
    {i \in Slots : /\ StateOf(i) # PROC_FREE
                   /\ proc_table[i].entry # NullFn
                   /\ proc_table[i].entry.fn = "shell_main"}

\* while a program's code executes, current is the pid of a slot in state
\* RUNNING
TaskCurrent ==
    ctl = "task" =>
        \E i \in Slots : /\ proc_table[i].pid = current
                         /\ StateOf(i) = PROC_RUNNING

\* while the scheduler loop is selecting, current is -1
LoopCurrent == ctl = "loop" => current = -1

\* while shell_main's code executes, cmd_run's included, current is the
\* shell's pid and the shell's slot is RUNNING
ShellCurrent ==
    ctl \in {"shell", "cmd_run"} =>
        \E i \in ShellSlots : /\ proc_table[i].pid = current
                              /\ StateOf(i) = PROC_RUNNING

\* C38: whenever a task is executing, current equals that task's pid and
\* the task's state is RUNNING, the shell that went on after dispatching a
\* program through scheduler_run_pid included; whenever the scheduler loop
\* is selecting, current is -1.
C38_CurrentConsistent == TaskCurrent /\ LoopCurrent /\ ShellCurrent

-----------------------------------------------------------------------------
(* Further properties of the filesystem *)

\* the places, directory and position, at which file-pool entry f is listed
Refs(F, f) ==
    {<<d, k>> \in DirPtrs \X (1 .. MAX_FILES) :
        /\ F.dirs[d].used
        /\ k <= Len(F.dirs[d].files)
        /\ F.dirs[d].files[k] = f}

\* C35: a file-pool entry is in use if and only if exactly one position of
\* exactly one directory's file list refers to it; no entry is listed while
\* free and none is listed twice.
C35_PoolListConsistency ==
    \A f \in FilePtrs :
        /\ fat.files[f].used <=> Cardinality(Refs(fat, f)) = 1
        /\ Cardinality(Refs(fat, f)) <= 1

\* C36: no directory lists two files with the same name, and none lists two
\* subdirectories with the same name.
C36_NamesUnique ==
    \A d \in UsedDirs :
        /\ \A j, k \in DOMAIN fat.dirs[d].files :
              j # k => FileName(fat.files[fat.dirs[d].files[j]])
                          # FileName(fat.files[fat.dirs[d].files[k]])
        /\ \A j, k \in DOMAIN fat.dirs[d].subdirs :
              j # k => fat.dirs[fat.dirs[d].subdirs[j]].name
                          # fat.dirs[fat.dirs[d].subdirs[k]].name

=============================================================================
